---- MODULE Spec2Model ----
(***************************************************************************)
(* Model of the task dependency scheduler of the Overwatch agent           *)
(* (coding_agent/src/overwatch_agent.py): OverwatchAgent.execute_plan,     *)
(* find_executable_tasks, start_session and update_session_state.          *)
(*                                                                         *)
(* `agent` is one OverwatchAgent object together with the frame of its     *)
(* execute_plan coroutine; `twin` is a second, independent agent that is   *)
(* given the same plan and the same executor outcomes (it only moves       *)
(* under SpecTwin); `probe` holds the arguments and the result of a direct *)
(* call of find_executable_tasks (it only moves under SpecResolver);        *)
(* `gate` is the frame of a direct call of                                 *)
(* _wait_for_user_input_with_timeout (it only moves under SpecGate).       *)
(***************************************************************************)
EXTENDS Naturals, Sequences, FiniteSets

VARIABLES agent, twin, probe, gate

vars == <<agent, twin, probe, gate>>

-----------------------------------------------------------------------------
(* Bounds of the model *)

MaxTasks == 3
MaxDeps == 2

\* timeout_seconds of a gate wait, counted in polling steps (of 0.1 s).
TimeoutPolls == 3

MaxUpdates == 3

-----------------------------------------------------------------------------
(* Values *)

\* Python's None (an absent key read with dict.get, an unset attribute).
None == "None"

\* current_task = None in the session state; a task is named by its position
\* in the task list (the position stands for the dict object itself).
NoTask == 0

\* The default of task.get('task_id', 'Unknown').
Unknown == "Unknown"

\* Task ids, in the order used to enumerate plans up to renaming.
IdOrder == <<"setup", "build", "test">>

TaskIds == {IdOrder[i] : i \in DOMAIN IdOrder}

IdRank(id) == CHOOSE i \in DOMAIN IdOrder : IdOrder[i] = id

Range(seq) == {seq[i] : i \in DOMAIN seq}

\* Python's `x in list`.
In(x, seq) == \E i \in DOMAIN seq : seq[i] = x

\* Every sequence over S of length at most n.
SeqsUpTo(S, n) == UNION {[1..k -> S] : k \in 0..n}

-----------------------------------------------------------------------------
(* Plans: the inputs of execute_plan *)

\* Dependency lists: ids of the plan or ids that no task carries, written
\* once each in IdOrder (one representative per set of ids).
DepLists ==
    {d \in SeqsUpTo(TaskIds, MaxDeps) :
        \A i \in DOMAIN d : \A j \in DOMAIN d : i < j => IdRank(d[i]) < IdRank(d[j])}

\* The task dicts whose id is one of ids; task_id = None is a dict without
\* the 'task_id' key.
TasksWith(ids) == [task_id : ids, dependencies : DepLists]

\* Ids are opaque to the scheduler (only compared for equality), so one plan
\* per renaming is enough: a task's id is one already used by an earlier task
\* or the first unused id of IdOrder.  Duplicate ids stay possible.
FirstUse(tasks) ==
    \A i \in DOMAIN tasks :
        tasks[i].task_id # None =>
            IdRank(tasks[i].task_id) <=
                Cardinality({tasks[j].task_id : j \in 1..(i-1)} \ {None}) + 1

-----------------------------------------------------------------------------
(* Session state *)

\* self.session_state before start_session has run.
NoSessionState == [status |-> None, current_task |-> NoTask, completed_tasks |-> <<>>]

\* dict.update: every key of delta takes delta's value, the others stay.
DictUpdate(state, delta) ==
    [k \in DOMAIN state \cup DOMAIN delta |->
        IF k \in DOMAIN delta THEN delta[k] ELSE state[k]]

\* An update that stores the delta in place of the state.
replace_session_state(a, delta, svc) ==
    IF a.session_id = None
    THEN a
    ELSE [a EXCEPT !.session_state = delta,
                   !.service_state = IF svc = "ok" THEN delta ELSE @]

\* update_session_state(state_delta) with a started session: the local dict is
\* updated first, then the session is fetched from the service (svc = "raise":
\* the service raises; svc = "none": it has no such session and answers
\* None) and its state updated.  Without a session: no change.
update_session_state(a, delta, svc) ==
    IF a.session_id = None
    THEN a
    ELSE [a EXCEPT !.session_state = DictUpdate(@, delta),
                   !.service_state = IF svc = "ok" THEN DictUpdate(@, delta) ELSE @]

\* Whether that call raises.
UpdateRaises(a, svc) == a.session_id # None /\ svc = "raise"

\* What a call of the session service may do: answer or raise.
SvcOutcomes == {"ok", "raise"}

\* The outcomes to draw for the next update_session_state of a: without a
\* session the service is not called.
SvcChoices(a) == IF a.session_id = None THEN {"ok"} ELSE SvcOutcomes

-----------------------------------------------------------------------------
(* Readiness resolver *)

\* A resolver that looks at the first dependency only.
FirstDependencyMet(task, completed_tasks) ==
    task.dependencies = <<>> \/ In(task.dependencies[1], completed_tasks)

\* all(dep in self.completed_tasks for dep in dependencies)
DependenciesMet(task, completed_tasks) ==
    \A k \in DOMAIN task.dependencies : In(task.dependencies[k], completed_tasks)

\* A resolver that does not skip the completed tasks.
IsExecutableAgain(task, completed_tasks) == DependenciesMet(task, completed_tasks)

\* The test of find_executable_tasks' loop body for one task.
IsExecutable(task, completed_tasks) ==
    /\ ~In(task.task_id, completed_tasks)
    /\ DependenciesMet(task, completed_tasks)

\* A resolver that puts the executable tasks of priority 'high' first.
find_executable_by_priority(tasks, completed_tasks) ==
    LET urgent(i) == "priority" \in DOMAIN tasks[i] /\ tasks[i].priority = "high"
    IN SelectSeq([i \in 1..Len(tasks) |-> i],
                 LAMBDA i : IsExecutable(tasks[i], completed_tasks) /\ urgent(i))
       \o SelectSeq([i \in 1..Len(tasks) |-> i],
                    LAMBDA i : IsExecutable(tasks[i], completed_tasks) /\ ~urgent(i))

\* find_executable_tasks: the positions of the executable tasks, in
\* declaration order (the code returns the task dicts themselves).
find_executable_tasks(tasks, completed_tasks) ==
    SelectSeq([i \in 1..Len(tasks) |-> i],
              LAMBDA i : IsExecutable(tasks[i], completed_tasks))

\* A deadlock branch whose membership test is inverted.
completed_remaining_tasks(tasks, completed_tasks) ==
    SelectSeq([i \in 1..Len(tasks) |-> i],
              LAMBDA i : In(tasks[i].task_id, completed_tasks))

\* remaining_tasks of the deadlock branch.
remaining_tasks(tasks, completed_tasks) ==
    SelectSeq([i \in 1..Len(tasks) |-> i],
              LAMBDA i : ~In(tasks[i].task_id, completed_tasks))

\* task.get('task_id', 'Unknown')
TaskIdOf(task) == IF task.task_id = None THEN Unknown ELSE task.task_id

\* A report that prints the whole dependency list of each task.
all_deps(task, completed_tasks) == task.dependencies

\* missing_deps of one task in the deadlock report.
missing_deps(task, completed_tasks) ==
    SelectSeq(task.dependencies, LAMBDA dep : ~In(dep, completed_tasks))

\* The lines printed by the deadlock branch: one per remaining task.
DeadlockReport(tasks, completed_tasks) ==
    LET rem == remaining_tasks(tasks, completed_tasks)
    IN [k \in 1..Len(rem) |->
            [task |-> rem[k],
             task_id |-> TaskIdOf(tasks[rem[k]]),
             missing |-> missing_deps(tasks[rem[k]], completed_tasks)]]

\* A round that picks any of the executable tasks.
AnyExecutableTask(executable_tasks) == Range(executable_tasks)

\* A round that picks the last of the executable tasks.
LastExecutableTask(executable_tasks) == {executable_tasks[Len(executable_tasks)]}

\* current_task = executable_tasks[0]: the tasks the round may pick.
NextTaskChoices(executable_tasks) == {Head(executable_tasks)}

-----------------------------------------------------------------------------
(* The agent and its execute_plan coroutine *)

\* OverwatchAgent.__init__, for an agent whose plan has been set (or not).
\* pc, execution_round, executable_tasks, current_task, next_executable and
\* user_input are the position and the locals of execute_plan; result and
\* exit are what it returned and through which return statement; report is
\* the printed deadlock report; calls is the history of the calls of
\* execute_single_task.
NewAgent(plan_is_none, tasks) ==
    [plan_is_none |-> plan_is_none,
     tasks |-> tasks,
     completed_tasks |-> <<>>,
     session_id |-> None,
     session_state |-> NoSessionState,
     service_state |-> NoSessionState,
     pc |-> "idle",
     execution_round |-> 0,
     executable_tasks |-> <<>>,
     current_task |-> NoTask,
     next_executable |-> <<>>,
     user_input |-> None,
     result |-> None,
     exit |-> None,
     report |-> <<>>,
     calls |-> <<>>]

\* return <value> of execute_plan, through the branch named exit.
Return(a, value, exit) == [a EXCEPT !.pc = "returned", !.result = value, !.exit = exit]

\* An exception leaving execute_plan.
Raise(a, exception) == [a EXCEPT !.pc = "raised", !.exit = exception]

\* start_session: a new session whose state is initialised locally and in the
\* service.
start_session(a) ==
    /\ a.pc = "idle"
    /\ a.session_id = None
    /\ LET state == [status |-> "planning", current_task |-> NoTask, completed_tasks |-> <<>>]
       IN a' = [a EXCEPT !.session_id = "session",
                         !.session_state = state,
                         !.service_state = state]

\* An execute_plan that enters its loop without looking at the plan.
begin_without_plan_check(a) ==
    /\ a.pc = "idle"
    /\ a' = [a EXCEPT !.completed_tasks = <<>>, !.execution_round = 0, !.pc = "loop"]

\* execute_plan up to the while loop.
execute_plan_begin(a) ==
    /\ a.pc = "idle"
    /\ a' = IF a.plan_is_none THEN Return(a, "False", "no_plan")
            ELSE IF a.tasks = <<>> THEN Return(a, "False", "no_tasks")
            ELSE [a EXCEPT !.completed_tasks = <<>>, !.execution_round = 0, !.pc = "loop"]

\* A round that hands every executable task to the executor at once.
round_starts_every_ready_task(a, svc) ==
    /\ a.pc = "loop"
    /\ Len(a.completed_tasks) < Len(a.tasks)
    /\ LET executable_tasks == find_executable_tasks(a.tasks, a.completed_tasks)
           r == [a EXCEPT !.execution_round = @ + 1, !.executable_tasks = executable_tasks]
       IN a' = IF executable_tasks = <<>>
               THEN Return(r, "False", "deadlock")
               ELSE [r EXCEPT !.pc = "executing",
                              !.current_task = Head(executable_tasks),
                              !.calls = @ \o [k \in 1..Len(executable_tasks) |->
                                                [task |-> executable_tasks[Len(executable_tasks) + 1 - k],
                                                 outcome |-> "running"]]]

\* A round that takes the completed ids from the session state.
round_reading_store(a, svc) ==
    /\ a.pc = "loop"
    /\ Len(a.completed_tasks) < Len(a.tasks)
    /\ LET completed == IF a.session_id = None THEN a.completed_tasks
                        ELSE a.session_state.completed_tasks
           executable_tasks == find_executable_tasks(a.tasks, completed)
           r == [a EXCEPT !.execution_round = @ + 1, !.executable_tasks = executable_tasks]
       IN IF executable_tasks = <<>>
          THEN a' = Return([r EXCEPT !.report = DeadlockReport(a.tasks, completed)],
                           "False", "deadlock")
          ELSE LET t == Head(executable_tasks)
                   u == update_session_state([r EXCEPT !.current_task = t],
                                             [current_task |-> t, status |-> "executing"], svc)
               IN a' = [u EXCEPT !.pc = "executing",
                                 !.calls = Append(@, [task |-> t, outcome |-> "running"])]

\* One pass of the while loop from its test to the call of execute_single_task.
execute_plan_round(a, svc) ==
    /\ a.pc = "loop"
    /\ Len(a.completed_tasks) < Len(a.tasks)
    /\ LET executable_tasks == find_executable_tasks(a.tasks, a.completed_tasks)
           r == [a EXCEPT !.execution_round = @ + 1, !.executable_tasks = executable_tasks]
       IN IF executable_tasks = <<>>
          THEN a' = IF remaining_tasks(a.tasks, a.completed_tasks) # <<>>
                    THEN Return([r EXCEPT !.report = DeadlockReport(a.tasks, a.completed_tasks)],
                                "False", "deadlock")
                    ELSE Raise(r, "IndexError")
          ELSE \E t \in NextTaskChoices(executable_tasks) :
                  LET c == [r EXCEPT !.current_task = t]
                      u == update_session_state(
                               c, [current_task |-> t, status |-> "executing"], svc)
                  IN a' = IF UpdateRaises(c, svc)
                          THEN Return(u, "False", "error")
                          ELSE [u EXCEPT !.pc = "executing",
                                         !.calls = Append(@, [task |-> t, outcome |-> "running"])]

\* A preview that takes the tasks it lists for done.
preview_consuming(a) ==
    LET listed == find_executable_tasks(a.tasks, a.completed_tasks)
    IN [a EXCEPT !.next_executable = listed,
                 !.completed_tasks = @ \o [k \in 1..Len(listed) |-> TaskIdOf(a.tasks[listed[k]])]]

\* The preview printed after a successful task: while tasks remain,
\* next_executable = self.find_executable_tasks(tasks).
preview_next_executable(a) ==
    IF Len(a.completed_tasks) < Len(a.tasks)
    THEN [a EXCEPT !.next_executable = find_executable_tasks(a.tasks, a.completed_tasks)]
    ELSE a

\* A loop that goes to its next round when the executor failed.
executor_returns_and_retries(a, exec, svc) ==
    /\ a.pc = "executing"
    /\ LET d == [a EXCEPT !.calls[Len(a.calls)].outcome = exec]
       IN a' = IF exec = "success"
               THEN [d EXCEPT !.completed_tasks = Append(@, TaskIdOf(a.tasks[a.current_task])),
                              !.pc = "gate"]
               ELSE [d EXCEPT !.pc = "loop"]

\* A loop that puts the completed task at the front of completed_tasks.
executor_returns_prepending(a, exec, svc) ==
    /\ a.pc = "executing"
    /\ LET d == [a EXCEPT !.calls[Len(a.calls)].outcome = exec]
       IN a' = IF exec = "success"
               THEN [d EXCEPT !.completed_tasks = <<TaskIdOf(a.tasks[a.current_task])>> \o @,
                              !.pc = "gate"]
               ELSE Return(d, "False", "task_failed")

\* A loop that records the session state before it appends the task id.
executor_returns_updating_first(a, exec, svc) ==
    /\ a.pc = "executing"
    /\ LET d == [a EXCEPT !.calls[Len(a.calls)].outcome = exec]
           u == update_session_state(
                    d, [completed_tasks |-> d.completed_tasks, current_task |-> NoTask], svc)
           c == [u EXCEPT !.completed_tasks = Append(@, TaskIdOf(a.tasks[a.current_task]))]
       IN a' = IF exec # "success" THEN Return(d, "False", "task_failed")
               ELSE IF UpdateRaises(d, svc) THEN Return(u, "False", "error")
               ELSE [preview_next_executable(c) EXCEPT !.pc = "gate"]

\* execute_single_task returns (it returns False exactly when the executor
\* raised), and execute_plan goes on to the preview and the gate, or returns.
execute_plan_executor_returns(a, exec, svc) ==
    /\ a.pc = "executing"
    /\ LET n == Len(a.calls)
           d == [a EXCEPT !.calls[n].outcome = exec]
           success == (exec = "success")
       IN IF success
          THEN LET c == [d EXCEPT !.completed_tasks =
                                      Append(@, TaskIdOf(a.tasks[a.current_task]))]
                   u == update_session_state(
                            c, [completed_tasks |-> c.completed_tasks,
                                current_task |-> NoTask], svc)
               IN a' = IF UpdateRaises(c, svc)
                       THEN Return(u, "False", "error")
                       ELSE [preview_next_executable(u) EXCEPT !.pc = "gate"]
          ELSE a' = Return(d, "False", "task_failed")

\* A gate whose cancel is not acted upon.
gate_returns_ignoring_cancel(a, g) ==
    /\ a.pc = "gate"
    /\ a' = [a EXCEPT !.user_input = g, !.pc = "loop"]

\* A loop that goes on only when the operator answered.
gate_stops_on_timeout(a, g) ==
    /\ a.pc = "gate"
    /\ LET w == [a EXCEPT !.user_input = g]
       IN a' = IF g \in {"cancel", "timeout"}
               THEN Return(w, "False", "cancelled")
               ELSE [w EXCEPT !.pc = "loop"]

\* _wait_for_user_input_with_timeout returns g and execute_plan acts on it.
execute_plan_gate_returns(a, g) ==
    /\ a.pc = "gate"
    /\ LET w == [a EXCEPT !.user_input = g]
       IN a' = IF g = "cancel"
               THEN Return(w, "False", "cancelled")
               ELSE [w EXCEPT !.pc = "loop"]

\* A gate wait placed outside the try block of the round.
gate_raises_outside_try(a) ==
    /\ a.pc = "gate"
    /\ a' = Raise(a, "error")

\* _wait_for_user_input_with_timeout raises (the reader thread cannot be
\* started, input() fails on the select path): the except clause of the
\* round returns False.
execute_plan_gate_raises(a) ==
    /\ a.pc = "gate"
    /\ a' = Return(a, "False", "error")

\* The while test fails: the code after the loop.
execute_plan_finish(a, svc) ==
    /\ a.pc = "loop"
    /\ ~(Len(a.completed_tasks) < Len(a.tasks))
    /\ LET u == update_session_state(a, [status |-> "completed"], svc)
       IN a' = IF UpdateRaises(a, svc)
               THEN Raise(u, "store_error")
               ELSE Return(u, "True", "completed")

ExecOutcomes == {"success", "exception"}

GateOutcomes == {"continue", "cancel", "timeout"}

-----------------------------------------------------------------------------
(* Specification: one agent running execute_plan on any plan *)

\* A direct call of find_executable_tasks: the task list, self.completed_tasks
\* and, once the call has returned, its result.
NewProbe(tasks, completed_tasks) ==
    [tasks |-> tasks, completed_tasks |-> completed_tasks, returned |-> FALSE, executable |-> <<>>]

NoProbe == NewProbe(<<>>, <<>>)

\* No call of _wait_for_user_input_with_timeout is being looked at.
NoGate == [pc |-> "none"]

Init ==
    /\ \E n \in 0..MaxTasks :
          \E tasks \in [1..n -> TasksWith(TaskIds)] :
              /\ FirstUse(tasks)
              /\ \E plan_is_none \in BOOLEAN :
                    /\ plan_is_none => tasks = <<>>
                    /\ agent = NewAgent(plan_is_none, tasks)
    /\ twin = agent
    /\ probe = NoProbe
    /\ gate = NoGate

StartSession == start_session(agent) /\ UNCHANGED <<twin, probe, gate>>

Begin == execute_plan_begin(agent) /\ UNCHANGED <<twin, probe, gate>>

Round ==
    \E svc \in SvcChoices(agent) : execute_plan_round(agent, svc) /\ UNCHANGED <<twin, probe, gate>>

ExecutorReturns ==
    \E exec \in ExecOutcomes, svc \in SvcChoices(agent) :
        execute_plan_executor_returns(agent, exec, svc) /\ UNCHANGED <<twin, probe, gate>>

GateReturns ==
    \E g \in GateOutcomes : execute_plan_gate_returns(agent, g) /\ UNCHANGED <<twin, probe, gate>>

Finish ==
    \E svc \in SvcChoices(agent) : execute_plan_finish(agent, svc) /\ UNCHANGED <<twin, probe, gate>>

Next == StartSession \/ Begin \/ Round \/ ExecutorReturns \/ GateReturns \/ Finish

Spec == Init /\ [][Next]_vars

-----------------------------------------------------------------------------
(* Specification: one agent running execute_plan on any plan, the plans    *)
(* with task dicts that have no 'task_id' key included                     *)

InitAnyIds ==
    /\ \E n \in 0..MaxTasks :
          \E tasks \in [1..n -> TasksWith(TaskIds \cup {None})] :
              /\ FirstUse(tasks)
              /\ \E plan_is_none \in BOOLEAN :
                    /\ plan_is_none => tasks = <<>>
                    /\ agent = NewAgent(plan_is_none, tasks)
    /\ twin = agent
    /\ probe = NoProbe
    /\ gate = NoGate

SpecAnyIds == InitAnyIds /\ [][Next]_vars

-----------------------------------------------------------------------------
(* Specification: find_executable_tasks called on any task list and any    *)
(* completed list                                                          *)

\* self.completed_tasks for the call: find_executable_tasks only tests
\* membership, so one list per set of ids (in IdOrder) is drawn.
CompletedLists ==
    {c \in SeqsUpTo(TaskIds, Len(IdOrder)) :
        \A i \in DOMAIN c : \A j \in DOMAIN c : i < j => IdRank(c[i]) < IdRank(c[j])}

InitResolver ==
    /\ \E n \in 0..MaxTasks :
          \E tasks \in [1..n -> TasksWith(TaskIds)] :
              /\ FirstUse(tasks)
              /\ agent = NewAgent(FALSE, tasks)
              /\ \E c \in CompletedLists : probe = NewProbe(tasks, c)
    /\ twin = agent
    /\ gate = NoGate

CallResolver ==
    /\ ~probe.returned
    /\ probe' = [probe EXCEPT !.returned = TRUE,
                              !.executable = find_executable_tasks(probe.tasks,
                                                                   probe.completed_tasks)]
    /\ UNCHANGED <<agent, twin, gate>>

NextResolver == CallResolver

SpecResolver == InitResolver /\ [][NextResolver]_vars

-----------------------------------------------------------------------------
(* Specification: the run in which nothing goes wrong - every executor     *)
(* call succeeds, no gate returns cancel, the session service answers -    *)
(* and every pending call returns (the event loop runs the coroutine on)   *)

RoundHappy == execute_plan_round(agent, "ok") /\ UNCHANGED <<twin, probe, gate>>

ExecutorSucceeds ==
    execute_plan_executor_returns(agent, "success", "ok") /\ UNCHANGED <<twin, probe, gate>>

GateResumes ==
    \E g \in GateOutcomes \ {"cancel"} :
        execute_plan_gate_returns(agent, g) /\ UNCHANGED <<twin, probe, gate>>

FinishHappy == execute_plan_finish(agent, "ok") /\ UNCHANGED <<twin, probe, gate>>

NextHappy ==
    StartSession \/ Begin \/ RoundHappy \/ ExecutorSucceeds \/ GateResumes \/ FinishHappy

SpecHappy == Init /\ [][NextHappy]_vars /\ WF_vars(NextHappy)

-----------------------------------------------------------------------------
(* Specification: two agents run execute_plan on the same plan, step by    *)
(* step, and every call of the executor has the same outcome for both.     *)
(* The agent may have a session, whose service may raise, and its gate may *)
(* time out or cancel; the twin runs without a session and its operator    *)
(* presses enter at every gate                                             *)

\* An agent whose execute_plan has ended stays as it is.
Stays(a) == (a.pc \in {"returned", "raised"}) /\ a' = a

TwinStartSession == start_session(agent) /\ UNCHANGED <<twin, probe, gate>>

TwinBegin == execute_plan_begin(agent) /\ execute_plan_begin(twin) /\ UNCHANGED <<probe, gate>>

TwinLoop ==
    /\ agent.pc = "loop" \/ twin.pc = "loop"
    /\ \E svc \in SvcChoices(agent) :
          execute_plan_round(agent, svc) \/ execute_plan_finish(agent, svc) \/ Stays(agent)
    /\ execute_plan_round(twin, "ok") \/ execute_plan_finish(twin, "ok") \/ Stays(twin)
    /\ UNCHANGED <<probe, gate>>

TwinExecutorReturns ==
    /\ agent.pc = "executing" \/ twin.pc = "executing"
    /\ \E exec \in ExecOutcomes :
          /\ \E svc \in SvcChoices(agent) :
                execute_plan_executor_returns(agent, exec, svc) \/ Stays(agent)
          /\ execute_plan_executor_returns(twin, exec, "ok") \/ Stays(twin)
    /\ UNCHANGED <<probe, gate>>

TwinGateReturns ==
    /\ agent.pc = "gate" \/ twin.pc = "gate"
    /\ \E g \in GateOutcomes : execute_plan_gate_returns(agent, g) \/ Stays(agent)
    /\ execute_plan_gate_returns(twin, "continue") \/ Stays(twin)
    /\ UNCHANGED <<probe, gate>>

NextTwin == TwinStartSession \/ TwinBegin \/ TwinLoop \/ TwinExecutorReturns \/ TwinGateReturns

SpecTwin == Init /\ [][NextTwin]_vars

-----------------------------------------------------------------------------
(* The gate: _wait_for_user_input_with_timeout *)

\* What the operator may send to stdin: a line (its characters, without the
\* newline), the end of input, or nothing.
NoEvent == [kind |-> "none", line |-> <<>>]

EndOfInput == [kind |-> "eof", line |-> <<>>]

Lines ==
    {<<>>, <<"c">>, <<"C">>, <<" ", "c", " ">>, <<"c", "c">>, <<"y">>, <<" ">>,
     <<"c", "a", "n", "c", "e", "l">>, <<"C", "a", "n", "c", "e", "l", " ">>,
     <<"c", " ", "c">>}

LineEvents == [kind : {"line"}, line : Lines]

Whitespace == {" "}

\* str.lower on one character.
LowerChar(ch) ==
    CASE ch = "C" -> "c"
      [] ch = "A" -> "a"
      [] ch = "N" -> "n"
      [] ch = "E" -> "e"
      [] ch = "L" -> "l"
      [] ch = "Y" -> "y"
      [] OTHER -> ch

\* str.lower
lower(line) == [i \in DOMAIN line |-> LowerChar(line[i])]

RECURSIVE lstrip(_)
lstrip(line) ==
    IF line # <<>> /\ Head(line) \in Whitespace THEN lstrip(Tail(line)) ELSE line

RECURSIVE rstrip(_)
rstrip(line) ==
    IF line # <<>> /\ line[Len(line)] \in Whitespace
    THEN rstrip(SubSeq(line, 1, Len(line) - 1))
    ELSE line

\* str.strip
strip(line) == rstrip(lstrip(line))

\* ['c', 'cancel']
CancelTokens == {<<"c">>, <<"c", "a", "n", "c", "e", "l">>}

\* A gate that takes every line that starts with c for a cancel.
outcome_by_first_letter(user_input) ==
    IF user_input # <<>> /\ Head(user_input) = "c" THEN "cancel" ELSE "continue"

\* The if/else on user_input (after .strip().lower()) of both paths.
outcome_of_input(user_input) ==
    IF user_input \in CancelTokens THEN "cancel" ELSE "continue"

\* The kinds of stdin: a terminal on which select works, a terminal on which
\* select.select raises OSError, and a stream that is not a terminal.
StdinKinds == {"tty", "tty_no_select", "pipe"}

\* The frame of a call: pc is "called", "select" (the select loop),
\* "threaded" (the fallback loop) or "returned"; elapsed is time.time() -
\* start_time in polling steps; pending is what stdin holds unread; typed and
\* typed_at record what the operator sent and when; reader is the state of
\* the reader thread; user_input and input_received are the fallback's
\* nonlocal variable and event; stale counts the reader threads of earlier
\* calls that are still blocked in input().
NewGate(stdin) ==
    [pc |-> "called", stdin |-> stdin, elapsed |-> 0, pending |-> NoEvent,
     typed |-> NoEvent, typed_at |-> 0, reader |-> "none", user_input |-> NoEvent,
     input_received |-> FALSE, result |-> None, stale |-> 0]

\* The call takes the select path on a terminal; otherwise, and when select
\* raises, it starts the reader thread and takes the fallback path.
gate_called(w) ==
    /\ w.pc = "called"
    /\ w' = IF w.stdin = "tty"
            THEN [w EXCEPT !.pc = "select"]
            ELSE [w EXCEPT !.pc = "threaded", !.reader = "blocked"]

\* The operator sends ev while the call waits.
operator_sends(w, ev) ==
    /\ w.pc \in {"select", "threaded"}
    /\ w.typed = NoEvent
    /\ w' = [w EXCEPT !.typed = ev, !.typed_at = w.elapsed, !.pending = ev]

\* select reports stdin ready within its 0.1 s: input() returns the line,
\* or raises EOFError.
select_ready(w) ==
    /\ w.pc = "select"
    /\ w.elapsed < TimeoutPolls
    /\ w.pending # NoEvent
    /\ w' = [w EXCEPT !.pc = "returned",
                      !.pending = IF w.pending = EndOfInput THEN @ ELSE NoEvent,
                      !.result = IF w.pending = EndOfInput THEN "continue"
                                 ELSE outcome_of_input(lower(strip(w.pending.line)))]

\* select returns after 0.1 s with nothing to read.
select_waits(w) ==
    /\ w.pc = "select"
    /\ w.elapsed < TimeoutPolls
    /\ w.pending = NoEvent
    /\ w' = [w EXCEPT !.elapsed = @ + 1]

\* The while test of the select loop fails.
select_times_out(w) ==
    /\ w.pc = "select"
    /\ ~(w.elapsed < TimeoutPolls)
    /\ w' = [w EXCEPT !.pc = "returned", !.result = "timeout"]

\* get_input, the reader thread: input() returns and the event is set, or
\* input() raises EOFError and the thread ends.  The thread goes on after
\* the call has returned.
reader_reads(w) ==
    /\ w.reader = "blocked"
    /\ w.pending # NoEvent
    /\ w' = IF w.pending = EndOfInput
            THEN [w EXCEPT !.reader = "ended"]
            ELSE [w EXCEPT !.reader = "done",
                           !.pending = NoEvent,
                           !.user_input = [kind |-> "line",
                                           line |-> lower(strip(w.pending.line))],
                           !.input_received = TRUE]

\* One pass of the fallback loop that ends in time.sleep(0.1); a reader
\* thread that can read does so before the sleep is over.
threaded_waits(w) ==
    /\ w.pc = "threaded"
    /\ w.elapsed < TimeoutPolls
    /\ ~w.input_received
    /\ ~(w.reader = "blocked" /\ w.pending # NoEvent)
    /\ w' = [w EXCEPT !.elapsed = @ + 1]

\* A fallback that joins its reader thread before it returns.
threaded_returns_after_join(w) ==
    /\ w.pc = "threaded"
    /\ w.reader # "blocked"
    /\ w' = [w EXCEPT !.pc = "returned",
                      !.result = IF w.input_received
                                 THEN outcome_of_input(w.user_input.line)
                                 ELSE "timeout"]

\* The fallback loop ends (time is up, or the event is set) and the call
\* returns.
threaded_returns(w) ==
    /\ w.pc = "threaded"
    /\ ~(w.elapsed < TimeoutPolls) \/ w.input_received
    /\ ~(w.reader = "blocked" /\ w.pending # NoEvent)
    /\ w' = [w EXCEPT !.pc = "returned",
                      !.result = IF w.input_received
                                 THEN outcome_of_input(w.user_input.line)
                                 ELSE "timeout"]

-----------------------------------------------------------------------------
(* Specification: one call of _wait_for_user_input_with_timeout, on any    *)
(* kind of stdin, during which the operator sends one line, ends the input *)
(* or does nothing.  The steps of the call and of its reader thread are    *)
(* taken as long as they can be (the interpreter runs both threads)        *)

InitGate ==
    /\ agent = NewAgent(TRUE, <<>>)
    /\ twin = agent
    /\ probe = NoProbe
    /\ \E stdin \in StdinKinds : gate = NewGate(stdin)

GateCalled == gate_called(gate) /\ UNCHANGED <<agent, twin, probe>>

OperatorTypes ==
    \E ev \in LineEvents : operator_sends(gate, ev) /\ UNCHANGED <<agent, twin, probe>>

OperatorEnds == operator_sends(gate, EndOfInput) /\ UNCHANGED <<agent, twin, probe>>

SelectReady == select_ready(gate) /\ UNCHANGED <<agent, twin, probe>>

SelectWaits == select_waits(gate) /\ UNCHANGED <<agent, twin, probe>>

SelectTimesOut == select_times_out(gate) /\ UNCHANGED <<agent, twin, probe>>

ReaderReads == reader_reads(gate) /\ UNCHANGED <<agent, twin, probe>>

ThreadedWaits == threaded_waits(gate) /\ UNCHANGED <<agent, twin, probe>>

ThreadedReturns == threaded_returns(gate) /\ UNCHANGED <<agent, twin, probe>>

GateRuns ==
    \/ GateCalled
    \/ SelectReady
    \/ SelectWaits
    \/ SelectTimesOut
    \/ ReaderReads
    \/ ThreadedWaits
    \/ ThreadedReturns

NextGate == GateRuns \/ OperatorTypes \/ OperatorEnds

SpecGate == InitGate /\ [][NextGate]_vars /\ WF_vars(GateRuns)

-----------------------------------------------------------------------------
(* Specification: one agent runs execute_plan without a session, and every *)
(* gate of the run is a call of _wait_for_user_input_with_timeout on the   *)
(* stdin of the process.  The operator sends a line, or ends the input,    *)
(* while an executor call is in flight; nothing reads stdin during the     *)
(* call but the reader threads that earlier gates left behind              *)

\* What the operator sends during an executor call.
EarlyLines == {<<"c">>, <<"C", "a", "n", "c", "e", "l", " ">>, <<"y">>}

EarlyEvents == [kind : {"line"}, line : EarlyLines] \cup {EndOfInput}

\* The operator sends ev before the call of the gate: stdin holds it unread.
operator_sends_early(w, ev) ==
    /\ w.pc = "called"
    /\ w.typed = NoEvent
    /\ w' = [w EXCEPT !.typed = ev, !.pending = ev]

\* get_input in the daemon thread of an earlier call, which timed out while
\* the thread was blocked in input(): input() returns the line, and the
\* thread sets the event of its own call, which nobody waits for; or it
\* raises EOFError and the thread ends.
stale_reader_reads(w) ==
    /\ w.stale > 0
    /\ w.pending # NoEvent
    /\ w' = [w EXCEPT !.stale = @ - 1,
                      !.pending = IF w.pending = EndOfInput THEN @ ELSE NoEvent]

\* The frame of the next call of the gate: stdin keeps what nobody read, and
\* the reader thread of the call that returned, if still blocked, lives on.
next_gate(w) ==
    [NewGate(w.stdin) EXCEPT !.pending = w.pending,
                             !.stale = w.stale + IF w.reader = "blocked" THEN 1 ELSE 0]

InitConsole ==
    /\ \E n \in 1..MaxTasks :
          \E tasks \in [1..n -> TasksWith(TaskIds)] :
              /\ FirstUse(tasks)
              /\ agent = NewAgent(FALSE, tasks)
    /\ twin = agent
    /\ probe = NoProbe
    /\ \E stdin \in StdinKinds : gate = NewGate(stdin)

ConsoleOperatorSends ==
    /\ agent.pc = "executing"
    /\ \E ev \in EarlyEvents : operator_sends_early(gate, ev)
    /\ UNCHANGED <<agent, twin, probe>>

StaleReaderReads == stale_reader_reads(gate) /\ UNCHANGED <<agent, twin, probe>>

ConsoleGateRuns == agent.pc = "gate" /\ GateRuns

\* user_input = self._wait_for_user_input_with_timeout(...) and the branch
\* on it.
ConsoleGateReturns ==
    /\ agent.pc = "gate"
    /\ gate.pc = "returned"
    /\ execute_plan_gate_returns(agent, gate.result)
    /\ gate' = next_gate(gate)
    /\ UNCHANGED <<twin, probe>>

NextConsole ==
    \/ Begin
    \/ RoundHappy
    \/ ExecutorReturns
    \/ FinishHappy
    \/ ConsoleOperatorSends
    \/ StaleReaderReads
    \/ ConsoleGateRuns
    \/ ConsoleGateReturns

SpecConsole == InitConsole /\ [][NextConsole]_vars

-----------------------------------------------------------------------------
(* Specification: the run of SpecConsole, but the operator sends a line, or *)
(* ends the input, while a gate waits: in the window of that gate.  The     *)
(* reader threads that earlier gates left behind are blocked on the same    *)
(* stdin as the reader thread of the waiting gate                           *)

\* The operator sends ev during the wait of a gate, before its time is up,
\* with nothing unread on stdin.
WindowOperatorSends ==
    /\ agent.pc = "gate"
    /\ gate.elapsed < TimeoutPolls
    /\ gate.pending = NoEvent
    /\ \E ev \in EarlyEvents : operator_sends(gate, ev)
    /\ UNCHANGED <<agent, twin, probe>>

NextWindows ==
    \/ Begin
    \/ RoundHappy
    \/ ExecutorReturns
    \/ FinishHappy
    \/ WindowOperatorSends
    \/ StaleReaderReads
    \/ ConsoleGateRuns
    \/ ConsoleGateReturns

SpecWindows == InitConsole /\ [][NextWindows]_vars

-----------------------------------------------------------------------------
(* Specification: update_session_state called, up to MaxUpdates times, with *)
(* the deltas that the agent passes to it, before and after start_session,  *)
(* on a service that answers with the session, answers None or raises      *)

\* The state_delta arguments of the calls in the agent (with small values
\* for the plan and for the task).
Deltas ==
    {[project_plan |-> "plan"],
     [current_task |-> 1, status |-> "executing"],
     [completed_tasks |-> <<"setup">>, current_task |-> NoTask],
     [status |-> "completed"]}

\* What get_session may do: return the session, return None, raise.
StoreOutcomes == {"ok", "none", "raise"}

\* No call of update_session_state yet.
NoStoreCall == [n |-> 0, delta |-> [status |-> None], svc |-> "ok"]

InitStore ==
    /\ agent = NewAgent(FALSE, <<>>)
    /\ twin = agent
    /\ probe = NoStoreCall
    /\ gate = NoGate

StoreUpdate ==
    /\ probe.n < MaxUpdates
    /\ \E delta \in Deltas, svc \in StoreOutcomes :
          /\ agent' = update_session_state(agent, delta, svc)
          /\ probe' = [n |-> probe.n + 1, delta |-> delta, svc |-> svc]
    /\ UNCHANGED <<twin, gate>>

NextStore == StartSession \/ StoreUpdate

SpecStore == InitStore /\ [][NextStore]_vars

-----------------------------------------------------------------------------
(* Specification: two agents with a started session run execute_plan on    *)
(* the same plan, step by step, with the same outcome of every executor    *)
(* call and of every gate, which the operator answers.  Between the steps  *)
(* of the agent an external party writes into its session state, the local *)
(* one and the one in the service; nobody writes into the twin's           *)

InitWriter ==
    /\ \E n \in 1..MaxTasks :
          \E tasks \in [1..n -> TasksWith(TaskIds)] :
              /\ FirstUse(tasks)
              /\ agent = NewAgent(FALSE, tasks)
    /\ twin = agent
    /\ probe = NoProbe
    /\ gate = NoGate

\* What the external party writes: a run that is over, with every task
\* completed.
Written(a) ==
    {[completed_tasks |-> [k \in 1..Len(a.tasks) |-> TaskIdOf(a.tasks[Len(a.tasks) + 1 - k])],
      current_task |-> Len(a.tasks),
      status |-> "completed"]}

\* The write happens between two rounds or while an executor call is in
\* flight.
external_write(a, w) ==
    /\ a.session_id # None
    /\ a.pc \in {"loop", "executing"}
    /\ a' = [a EXCEPT !.session_state = DictUpdate(@, w),
                      !.service_state = DictUpdate(@, w)]
    /\ a' # a

WriterStartSession == start_session(agent) /\ start_session(twin) /\ UNCHANGED <<probe, gate>>

WriterBegin ==
    /\ agent.session_id # None
    /\ execute_plan_begin(agent)
    /\ execute_plan_begin(twin)
    /\ UNCHANGED <<probe, gate>>

WriterLoop ==
    /\ agent.pc = "loop" \/ twin.pc = "loop"
    /\ execute_plan_round(agent, "ok") \/ execute_plan_finish(agent, "ok") \/ Stays(agent)
    /\ execute_plan_round(twin, "ok") \/ execute_plan_finish(twin, "ok") \/ Stays(twin)
    /\ UNCHANGED <<probe, gate>>

WriterExecutorReturns ==
    /\ agent.pc = "executing" \/ twin.pc = "executing"
    /\ \E exec \in ExecOutcomes :
          /\ execute_plan_executor_returns(agent, exec, "ok") \/ Stays(agent)
          /\ execute_plan_executor_returns(twin, exec, "ok") \/ Stays(twin)
    /\ UNCHANGED <<probe, gate>>

\* The operator answers every gate, with enter or with a cancel token.
WriterGateReturns ==
    /\ agent.pc = "gate" \/ twin.pc = "gate"
    /\ \E g \in {"continue", "cancel"} :
          /\ execute_plan_gate_returns(agent, g) \/ Stays(agent)
          /\ execute_plan_gate_returns(twin, g) \/ Stays(twin)
    /\ UNCHANGED <<probe, gate>>

ExternalWrite ==
    /\ \E w \in Written(agent) : external_write(agent, w)
    /\ UNCHANGED <<twin, probe, gate>>

NextWriter ==
    \/ WriterStartSession
    \/ WriterBegin
    \/ WriterLoop
    \/ WriterExecutorReturns
    \/ WriterGateReturns
    \/ ExternalWrite

SpecWriter == InitWriter /\ [][NextWriter]_vars

-----------------------------------------------------------------------------
(* Specification: one agent with a started session runs execute_plan, and  *)
(* anything called in a round may raise: the session service in either     *)
(* update of the session state, the executor, the gate wait.  The probe    *)
(* records which of them raised                                            *)

NoFault == [fault |-> "none"]

FaultsBegin == agent.session_id # None /\ Begin

FaultsRound ==
    \E svc \in SvcOutcomes :
        /\ execute_plan_round(agent, svc)
        /\ probe' = IF /\ svc = "raise"
                       /\ find_executable_tasks(agent.tasks, agent.completed_tasks) # <<>>
                    THEN [fault |-> "store"]
                    ELSE probe
        /\ UNCHANGED <<twin, gate>>

FaultsExecutorReturns ==
    \E exec \in ExecOutcomes, svc \in SvcOutcomes :
        /\ execute_plan_executor_returns(agent, exec, svc)
        /\ probe' = IF exec = "exception" THEN [fault |-> "executor"]
                    ELSE IF svc = "raise" THEN [fault |-> "store"]
                    ELSE probe
        /\ UNCHANGED <<twin, gate>>

FaultsGateRaises ==
    /\ execute_plan_gate_raises(agent)
    /\ probe' = [fault |-> "gate"]
    /\ UNCHANGED <<twin, gate>>

InitFaults ==
    /\ \E n \in 1..MaxTasks :
          \E tasks \in [1..n -> TasksWith(TaskIds)] :
              /\ FirstUse(tasks)
              /\ agent = NewAgent(FALSE, tasks)
    /\ twin = agent
    /\ probe = NoFault
    /\ gate = NoGate

NextFaults ==
    \/ StartSession
    \/ FaultsBegin
    \/ FaultsRound
    \/ FaultsExecutorReturns
    \/ GateReturns
    \/ FaultsGateRaises
    \/ Finish

SpecFaults == InitFaults /\ [][NextFaults]_vars

-----------------------------------------------------------------------------
(* Specification: two agents run execute_plan, step by step and without a  *)
(* session, on two plans that differ only in the descriptive keys of their *)
(* tasks: the agent's tasks have none, the twin's tasks carry priority,    *)
(* category and estimated_hours, the last declared task being the one of   *)
(* high priority.  Every call of the executor and every gate has the same  *)
(* outcome for both                                                        *)

\* The task dicts of tasks with the descriptive keys added: the task at
\* position urgent is the one of high priority.
WithMetadata(tasks, urgent) ==
    [i \in DOMAIN tasks |->
        [task_id |-> tasks[i].task_id,
         dependencies |-> tasks[i].dependencies,
         priority |-> IF i = urgent THEN "high" ELSE "low",
         category |-> IF i = urgent THEN "backend" ELSE "setup",
         estimated_hours |-> IF i = urgent THEN 8 ELSE 1]]

InitMetadata ==
    /\ \E n \in 1..MaxTasks :
          \E tasks \in [1..n -> TasksWith(TaskIds)] :
              /\ FirstUse(tasks)
              /\ agent = NewAgent(FALSE, tasks)
              /\ twin = NewAgent(FALSE, WithMetadata(tasks, n))
    /\ probe = NoProbe
    /\ gate = NoGate

MetadataGateReturns ==
    /\ agent.pc = "gate" \/ twin.pc = "gate"
    /\ \E g \in GateOutcomes :
          /\ execute_plan_gate_returns(agent, g) \/ Stays(agent)
          /\ execute_plan_gate_returns(twin, g) \/ Stays(twin)
    /\ UNCHANGED <<probe, gate>>

NextMetadata == TwinBegin \/ TwinLoop \/ TwinExecutorReturns \/ MetadataGateReturns

SpecMetadata == InitMetadata /\ [][NextMetadata]_vars

-----------------------------------------------------------------------------
(* Specification: two agents run execute_plan, step by step and without a  *)
(* session, on two plans that differ only in the way the dependency lists  *)
(* are written: each list of the twin is the agent's in reverse order      *)
(* followed by the agent's, so that the order differs and every id is      *)
(* written twice.  Every call of the executor and every gate has the same  *)
(* outcome for both                                                        *)

\* list[::-1]
Reversed(list) == [k \in DOMAIN list |-> list[Len(list) + 1 - k]]

\* The ways to rewrite a dependency list that keep its set of ids.
Rewritings == {"reversed", "repeated", "both"}

Rewritten(deps, how) ==
    CASE how = "reversed" -> Reversed(deps)
      [] how = "repeated" -> deps \o deps
      [] how = "both" -> Reversed(deps) \o deps

\* The task dicts of tasks with every dependency list rewritten.
WithDependencies(tasks, how) ==
    [i \in DOMAIN tasks |->
        [task_id |-> tasks[i].task_id,
         dependencies |-> Rewritten(tasks[i].dependencies, how)]]

InitDependencies ==
    /\ \E n \in 1..MaxTasks :
          \E tasks \in [1..n -> TasksWith(TaskIds)] :
              /\ FirstUse(tasks)
              /\ agent = NewAgent(FALSE, tasks)
              /\ twin = NewAgent(FALSE, WithDependencies(tasks, "both"))
    /\ probe = NoProbe
    /\ gate = NoGate

SpecDependencies == InitDependencies /\ [][NextMetadata]_vars

-----------------------------------------------------------------------------
(* Specification: one agent with a started session runs execute_plan, with *)
(* the lists of the session state as objects: an entry of the state is     *)
(* either a list of its own or the scheduler's self.completed_tasks        *)
(* itself.  The step in which the executor returns ends at the append of   *)
(* line 338; the update of the session state that follows is a step of     *)
(* its own                                                                 *)

\* A list object of its own with these items.
new_list(items) == [alias |-> FALSE, items |-> items]

\* An entry that is the list self.completed_tasks itself.
list_itself(items) == [alias |-> TRUE, items |-> items]

\* self.completed_tasks.copy()
list_copy(items) == new_list(items)

\* The items of the list that entry is, in the state a of the agent.
Items(entry, a) == IF entry.alias THEN a.completed_tasks ELSE entry.items

\* start_session, with "completed_tasks": [] as an object.
mirror_start_session(a) ==
    /\ a.pc = "idle"
    /\ a.session_id = None
    /\ LET state == [status |-> "planning", current_task |-> NoTask,
                     completed_tasks |-> new_list(<<>>)]
       IN a' = [a EXCEPT !.session_id = "session",
                         !.session_state = state,
                         !.service_state = state]

\* execute_single_task returns; on success the id is appended (line 338).
mirror_executor_returns(a, exec) ==
    /\ a.pc = "executing"
    /\ LET d == [a EXCEPT !.calls[Len(a.calls)].outcome = exec]
       IN a' = IF exec = "success"
               THEN [d EXCEPT !.completed_tasks = Append(@, TaskIdOf(a.tasks[a.current_task])),
                              !.pc = "appended"]
               ELSE Return(d, "False", "task_failed")

\* The update of lines 341-344 and the preview, up to the gate wait.
mirror_records(a, svc) ==
    /\ a.pc = "appended"
    /\ LET u == update_session_state(
                    a, [completed_tasks |-> list_copy(a.completed_tasks),
                        current_task |-> NoTask], svc)
       IN a' = IF UpdateRaises(a, svc)
               THEN Return(u, "False", "error")
               ELSE [preview_next_executable(u) EXCEPT !.pc = "gate"]

InitMirror ==
    /\ \E n \in 1..MaxTasks :
          \E tasks \in [1..n -> TasksWith(TaskIds)] :
              /\ FirstUse(tasks)
              /\ agent = NewAgent(FALSE, tasks)
    /\ twin = agent
    /\ probe = NoProbe
    /\ gate = NoGate

MirrorStartSession == mirror_start_session(agent) /\ UNCHANGED <<twin, probe, gate>>

MirrorExecutorReturns ==
    \E exec \in ExecOutcomes :
        mirror_executor_returns(agent, exec) /\ UNCHANGED <<twin, probe, gate>>

MirrorRecords ==
    \E svc \in SvcOutcomes : mirror_records(agent, svc) /\ UNCHANGED <<twin, probe, gate>>

NextMirror ==
    \/ MirrorStartSession
    \/ FaultsBegin
    \/ RoundHappy
    \/ MirrorExecutorReturns
    \/ MirrorRecords
    \/ GateReturns
    \/ Finish

SpecMirror == InitMirror /\ [][NextMirror]_vars

-----------------------------------------------------------------------------
(* Specification: the loop _execute_tasks of test_main.py, which keeps the  *)
(* completed ids in a set, beside execute_plan on the same plan (its task   *)
(* ids are unique) with the same executor outcomes.  The gate of            *)
(* execute_plan never cancels; _execute_tasks has no gate.  The session     *)
(* service of _execute_tasks answers every call                             *)

\* _find_executable_tasks: the positions of the executable tasks, in
\* declaration order; completed_tasks is a set.
_find_executable_tasks(tasks, completed_tasks) ==
    SelectSeq([i \in 1..Len(tasks) |-> i],
              LAMBDA i : /\ tasks[i].task_id \notin completed_tasks
                         /\ \A k \in DOMAIN tasks[i].dependencies :
                               tasks[i].dependencies[k] \in completed_tasks)

\* The lines printed by the deadlock branch of _execute_tasks.
_execute_tasks_report(tasks, completed_tasks) ==
    LET rem == SelectSeq([i \in 1..Len(tasks) |-> i],
                         LAMBDA i : tasks[i].task_id \notin completed_tasks)
    IN [k \in 1..Len(rem) |->
            [task |-> rem[k],
             task_id |-> TaskIdOf(tasks[rem[k]]),
             missing |-> SelectSeq(tasks[rem[k]].dependencies,
                                   LAMBDA dep : dep \notin completed_tasks)]]

\* The frame of _execute_tasks: completed_tasks is the set of the loop;
\* session_state is the state kept by the session service, whose
\* completed_tasks is list(completed_tasks), in no particular order; calls
\* is the history of the calls of runner.run_async.
NewExecuteTasks(tasks) ==
    [tasks |-> tasks,
     completed_tasks |-> {},
     session_state |-> [current_task |-> NoTask, status |-> "planning", completed_tasks |-> {}],
     pc |-> "idle",
     execution_round |-> 0,
     current_task |-> NoTask,
     exit |-> None,
     report |-> <<>>,
     calls |-> <<>>]

\* _execute_tasks up to the while loop.
_execute_tasks_begin(f) ==
    /\ f.pc = "idle"
    /\ f' = IF f.tasks = <<>> THEN [f EXCEPT !.pc = "returned", !.exit = "no_tasks"]
            ELSE [f EXCEPT !.pc = "loop"]

\* A round that takes the last of the executable tasks.
_execute_tasks_round_taking_last(f) ==
    /\ f.pc = "loop"
    /\ Cardinality(f.completed_tasks) < Len(f.tasks)
    /\ LET executable_tasks == _find_executable_tasks(f.tasks, f.completed_tasks)
           r == [f EXCEPT !.execution_round = @ + 1]
       IN f' = IF executable_tasks = <<>>
               THEN [r EXCEPT !.pc = "returned", !.exit = "deadlock",
                              !.report = _execute_tasks_report(f.tasks, f.completed_tasks)]
               ELSE LET t == executable_tasks[Len(executable_tasks)]
                    IN [r EXCEPT !.current_task = t,
                                 !.session_state.current_task = t,
                                 !.session_state.status = "executing",
                                 !.pc = "executing",
                                 !.calls = Append(@, [task |-> t, outcome |-> "running"])]

\* One pass of the while loop from its test to the call of
\* runner.run_async.  With no executable task, remaining_tasks is empty only
\* when every task id is in completed_tasks: then the loop is left by break.
_execute_tasks_round(f) ==
    /\ f.pc = "loop"
    /\ Cardinality(f.completed_tasks) < Len(f.tasks)
    /\ LET executable_tasks == _find_executable_tasks(f.tasks, f.completed_tasks)
           r == [f EXCEPT !.execution_round = @ + 1]
       IN f' = IF executable_tasks = <<>>
               THEN IF \E i \in DOMAIN f.tasks : f.tasks[i].task_id \notin f.completed_tasks
                    THEN [r EXCEPT !.pc = "returned", !.exit = "deadlock",
                                   !.report = _execute_tasks_report(f.tasks, f.completed_tasks)]
                    ELSE [r EXCEPT !.pc = "returned", !.exit = "completed",
                                   !.session_state.status = "completed"]
               ELSE LET t == Head(executable_tasks)
                    IN [r EXCEPT !.current_task = t,
                                 !.session_state.current_task = t,
                                 !.session_state.status = "executing",
                                 !.pc = "executing",
                                 !.calls = Append(@, [task |-> t, outcome |-> "running"])]

\* runner.run_async and the processing of its events return, and the task
\* id is added to the set; or they raise, and the except clause returns.
_execute_tasks_runner_returns(f, exec) ==
    /\ f.pc = "executing"
    /\ LET d == [f EXCEPT !.calls[Len(f.calls)].outcome = exec]
       IN f' = IF exec = "success"
               THEN LET done == f.completed_tasks \cup {TaskIdOf(f.tasks[f.current_task])}
                    IN [d EXCEPT !.completed_tasks = done,
                                 !.session_state.completed_tasks = done,
                                 !.session_state.current_task = NoTask,
                                 !.pc = "loop"]
               ELSE [d EXCEPT !.pc = "returned", !.exit = "error"]

\* The while test fails: the code after the loop.
_execute_tasks_finish(f) ==
    /\ f.pc = "loop"
    /\ ~(Cardinality(f.completed_tasks) < Len(f.tasks))
    /\ f' = [f EXCEPT !.pc = "returned", !.exit = "completed",
                      !.session_state.status = "completed"]

\* No two tasks carry the same id.
UniqueTaskIds(tasks) ==
    \A i, j \in DOMAIN tasks : tasks[i].task_id = tasks[j].task_id => i = j

InitSchedulers ==
    /\ \E n \in 0..MaxTasks :
          \E tasks \in [1..n -> TasksWith(TaskIds)] :
              /\ FirstUse(tasks)
              /\ UniqueTaskIds(tasks)
              /\ agent = NewAgent(FALSE, tasks)
              /\ probe = NewExecuteTasks(tasks)
    /\ twin = agent
    /\ gate = NoGate

SchedulersBegin ==
    /\ execute_plan_begin(agent)
    /\ _execute_tasks_begin(probe)
    /\ UNCHANGED <<twin, gate>>

SchedulersLoop ==
    /\ agent.pc = "loop" \/ probe.pc = "loop"
    /\ execute_plan_round(agent, "ok") \/ execute_plan_finish(agent, "ok") \/ Stays(agent)
    /\ _execute_tasks_round(probe) \/ _execute_tasks_finish(probe) \/ Stays(probe)
    /\ UNCHANGED <<twin, gate>>

SchedulersExecutorReturns ==
    /\ agent.pc = "executing" \/ probe.pc = "executing"
    /\ \E exec \in ExecOutcomes :
          /\ execute_plan_executor_returns(agent, exec, "ok") \/ Stays(agent)
          /\ _execute_tasks_runner_returns(probe, exec) \/ Stays(probe)
    /\ UNCHANGED <<twin, gate>>

\* The gate of execute_plan returns; _execute_tasks is at its while test.
SchedulersGateReturns ==
    /\ \E g \in GateOutcomes \ {"cancel"} : execute_plan_gate_returns(agent, g)
    /\ UNCHANGED <<twin, probe, gate>>

NextSchedulers ==
    \/ SchedulersBegin
    \/ SchedulersLoop
    \/ SchedulersExecutorReturns
    \/ SchedulersGateReturns

SpecSchedulers == InitSchedulers /\ [][NextSchedulers]_vars

-----------------------------------------------------------------------------
(* Properties *)

Halted(a) == a.pc \in {"returned", "raised"}

\* The ids appended to completed_tasks by the first n calls of a.
IdsOfCalls(a, n) == [k \in 1..n |-> TaskIdOf(a.tasks[a.calls[k].task])]

\* C1 - Topological soundness: a task is handed to the executor only after
\* every one of its dependency ids has been appended to completed_tasks, and
\* completed_tasks lists, in order, the ids of the calls that succeeded; so
\* each id of completed_tasks is preceded there by the dependencies of the
\* task that was executed for it.
TopologicalSoundness ==
    /\ Len(agent.completed_tasks) <= Len(agent.calls)
    /\ \A k \in DOMAIN agent.completed_tasks :
          /\ agent.calls[k].outcome = "success"
          /\ agent.completed_tasks[k] = TaskIdOf(agent.tasks[agent.calls[k].task])
    /\ \A k \in DOMAIN agent.calls :
          \A d \in Range(agent.tasks[agent.calls[k].task].dependencies) :
              \E j \in 1..(k - 1) : j <= Len(agent.completed_tasks) /\ agent.completed_tasks[j] = d

\* A task with two dependencies has been completed as third task.
TopologicalSoundnessWitness ==
    /\ Len(agent.completed_tasks) = 3
    /\ Len(agent.tasks[agent.calls[3].task].dependencies) = 2
    /\ agent.calls[3].task = 1

\* C10 - Readiness resolver: find_executable_tasks returns exactly the tasks
\* whose id is not in completed_tasks and whose dependencies are all in
\* completed_tasks, each once and in declaration order.
ReadinessResolver ==
    probe.returned =>
        LET done == Range(probe.completed_tasks)
            ready == {i \in DOMAIN probe.tasks :
                         /\ probe.tasks[i].task_id \notin done
                         /\ Range(probe.tasks[i].dependencies) \subseteq done}
        IN /\ Range(probe.executable) = ready
           /\ \A j \in DOMAIN probe.executable : \A k \in DOMAIN probe.executable :
                 j < k => probe.executable[j] < probe.executable[k]

\* A call that returns two of three tasks: one is skipped as completed, and
\* one of the returned tasks has a dependency.
ReadinessResolverWitness ==
    /\ probe.returned
    /\ Len(probe.tasks) = 3
    /\ probe.executable = <<1, 3>>
    /\ probe.tasks[2].task_id \in Range(probe.completed_tasks)
    /\ probe.tasks[3].dependencies # <<>>
    /\ probe.tasks[1].dependencies = <<>>

\* A session has been started.
Started(a) == a.session_id # None

\* The positions of the tasks whose id is not in completed_tasks.
Uncompleted(a) == {i \in DOMAIN a.tasks : a.tasks[i].task_id \notin Range(a.completed_tasks)}

\* The positions of the tasks that are ready.
Ready(a) ==
    {i \in Uncompleted(a) : Range(a.tasks[i].dependencies) \subseteq Range(a.completed_tasks)}

\* a.report lists the tasks of stuck (positions), once each, each with its
\* id and exactly those dependency ids that are not in completed.
ReportsExactly(a, stuck, completed) ==
    /\ Len(a.report) = Cardinality(stuck)
    /\ {a.report[k].task : k \in DOMAIN a.report} = stuck
    /\ \A k \in DOMAIN a.report :
          /\ a.report[k].task_id = TaskIdOf(a.tasks[a.report[k].task])
          /\ Range(a.report[k].missing) =
                Range(a.tasks[a.report[k].task].dependencies) \ Range(completed)

\* The plan A -> [B], B -> [A].
MutualPlan ==
    <<[task_id |-> "setup", dependencies |-> <<"build">>],
      [task_id |-> "build", dependencies |-> <<"setup">>]>>

\* Once execute_plan has returned or raised, it does nothing more.
NothingAfterTheEnd == [][~Halted(agent)]_vars

\* C4 - Deadlock report: a round that finds no ready task while some task is
\* not completed makes execute_plan return False with a report of every
\* uncompleted task, and only those, each with exactly its dependency ids
\* that are not in completed_tasks; the mutual dependency setup -> [build],
\* build -> [setup] ends so with both reported and nothing completed.
DeadlockReported ==
    /\ [][(agent.pc = "loop" /\ Uncompleted(agent) # {} /\ Ready(agent) = {})
            => /\ agent'.pc = "returned"
               /\ agent'.result = "False"
               /\ agent'.exit = "deadlock"
               /\ agent'.completed_tasks = agent.completed_tasks
               /\ agent'.calls = agent.calls
               /\ ReportsExactly(agent', Uncompleted(agent), agent.completed_tasks)]_vars
    /\ [](agent.exit = "deadlock"
            => /\ Ready(agent) = {}
               /\ Uncompleted(agent) # {}
               /\ ReportsExactly(agent, Uncompleted(agent), agent.completed_tasks))
    /\ []((agent.tasks = MutualPlan /\ Halted(agent))
            => /\ agent.result = "False"
               /\ agent.exit = "deadlock"
               /\ agent.completed_tasks = <<>>
               /\ agent.report = <<[task |-> 1, task_id |-> "setup", missing |-> <<"build">>],
                                   [task |-> 2, task_id |-> "build", missing |-> <<"setup">>]>>)

\* A deadlock reported after a task was completed: of the two stuck tasks,
\* one misses a completed dependency no longer but another one still.
DeadlockReportedWitness ==
    /\ agent.exit = "deadlock"
    /\ Len(agent.completed_tasks) = 1
    /\ Len(agent.report) = 2
    /\ \E k \in DOMAIN agent.report :
          Len(agent.report[k].missing) < Len(agent.tasks[agent.report[k].task].dependencies)

\* The pairs <<task, id>> of a dependency on an id that no task carries.
MissingDependencies(tasks) ==
    {<<i, d>> \in (DOMAIN tasks) \X TaskIds :
        /\ d \in Range(tasks[i].dependencies)
        /\ d \notin {tasks[j].task_id : j \in DOMAIN tasks}}

\* Every call of execute_single_task made so far has returned success.
AllSucceeded(a) == \A k \in DOMAIN a.calls : a.calls[k].outcome = "success"

\* C5 - Missing dependency: with a dependency on an id that no task of the
\* plan carries, execute_plan never raises and never returns True; unless an
\* executor failure, a cancel or a store error ends the run earlier, it ends
\* in the deadlock report, which lists that task with the missing id.
MissingDependencyReported ==
    MissingDependencies(agent.tasks) # {} =>
        /\ agent.pc # "raised"
        /\ agent.result # "True"
        /\ (Halted(agent) /\ agent.exit \notin {"task_failed", "cancelled", "error"})
              => /\ agent.exit = "deadlock"
                 /\ agent.result = "False"
                 /\ \A m \in MissingDependencies(agent.tasks) :
                       \E k \in DOMAIN agent.report :
                           /\ agent.report[k].task = m[1]
                           /\ In(m[2], agent.report[k].missing)

\* C6 - Failure short-circuit: when the executor fails on a task,
\* execute_plan returns False in that step, completed_tasks stays as it was
\* (the ids of the earlier calls, the failing id not among them), the task
\* is not called again and no other task is called afterwards.
FailureShortCircuit ==
    /\ [][(agent.pc = "executing" /\ agent'.calls[Len(agent.calls)].outcome # "success")
            => /\ agent'.pc = "returned"
               /\ agent'.result = "False"
               /\ agent'.exit = "task_failed"
               /\ agent'.completed_tasks = agent.completed_tasks
               /\ Len(agent'.calls) = Len(agent.calls)]_vars
    /\ [](\A k \in DOMAIN agent.calls :
            agent.calls[k].outcome = "exception"
               => /\ k = Len(agent.calls)
                  /\ agent.pc = "returned"
                  /\ agent.result = "False"
                  /\ agent.completed_tasks = IdsOfCalls(agent, k - 1)
                  /\ TaskIdOf(agent.tasks[agent.calls[k].task]) \notin Range(agent.completed_tasks)
                  /\ \A j \in 1..(k - 1) : agent.calls[j].task # agent.calls[k].task)
    /\ NothingAfterTheEnd

\* The executor fails on the second task while a third one is ready.
FailureShortCircuitWitness ==
    /\ agent.exit = "task_failed"
    /\ Len(agent.calls) = 2
    /\ Len(agent.completed_tasks) = 1
    /\ Cardinality(Ready(agent)) = 2

\* C7 - Cancellation stops the run: when the gate returns cancel,
\* execute_plan returns False in that step, completed_tasks keeps every task
\* completed so far, the one just completed included, and no further task
\* is handed to the executor.
CancellationStops ==
    /\ [][(agent.pc = "gate" /\ agent'.user_input = "cancel")
            => /\ agent'.pc = "returned"
               /\ agent'.result = "False"
               /\ agent'.exit = "cancelled"
               /\ agent'.completed_tasks = agent.completed_tasks
               /\ agent'.calls = agent.calls]_vars
    /\ [](agent.exit = "cancelled"
            => /\ agent.user_input = "cancel"
               /\ Len(agent.calls) >= 1
               /\ AllSucceeded(agent)
               /\ agent.completed_tasks = IdsOfCalls(agent, Len(agent.calls)))
    /\ NothingAfterTheEnd

\* Cancelled after the first task while other tasks are ready.
CancellationStopsWitness ==
    /\ agent.exit = "cancelled"
    /\ agent.pc = "returned"
    /\ agent.completed_tasks = <<"setup">>
    /\ Cardinality(Ready(agent)) = 2

\* C8 - After a run is cancelled at the gate, the status in the session
\* state is 'cancelled' (and so differs from the status of a failed run).
CancelledStatus ==
    (Started(agent) /\ agent.exit = "cancelled")
        => /\ agent.session_state.status = "cancelled"
           /\ agent.service_state.status = "cancelled"

\* C9 - After a run ends in failure (executor failure, deadlock or an
\* unexpected error in a round) the status in the session state is 'failed',
\* and it is never 'executing' once execute_plan has returned.
FailedStatus ==
    (Started(agent) /\ agent.pc = "returned")
        => /\ agent.exit \in {"task_failed", "deadlock", "error"}
                => agent.session_state.status = "failed"
           /\ agent.session_state.status # "executing"

\* The plan is one with unique task ids whose dependencies are ids of the
\* plan and form no cycle (some ranking puts every task after the tasks it
\* depends on).
WellFormed(tasks) ==
    /\ tasks # <<>>
    /\ \A i \in DOMAIN tasks : \A j \in DOMAIN tasks :
          i # j => tasks[i].task_id # tasks[j].task_id
    /\ \A i \in DOMAIN tasks :
          Range(tasks[i].dependencies) \subseteq {tasks[j].task_id : j \in DOMAIN tasks}
    /\ \E rank \in [DOMAIN tasks -> DOMAIN tasks] :
          \A i \in DOMAIN tasks : \A j \in DOMAIN tasks :
              tasks[j].task_id \in Range(tasks[i].dependencies) => rank[j] < rank[i]

\* The plan setup, build(setup), test(build).
ChainPlan ==
    <<[task_id |-> "setup", dependencies |-> <<>>],
      [task_id |-> "build", dependencies |-> <<"setup">>],
      [task_id |-> "test", dependencies |-> <<"build">>]>>

\* execute_plan has returned True with every task id exactly once in
\* completed_tasks, in the order of the executor calls.
CompletedAll(a) ==
    /\ a.pc = "returned"
    /\ a.result = "True"
    /\ Len(a.completed_tasks) = Len(a.tasks)
    /\ \A i \in DOMAIN a.tasks :
          Cardinality({k \in DOMAIN a.completed_tasks :
                          a.completed_tasks[k] = a.tasks[i].task_id}) = 1
    /\ Len(a.calls) = Len(a.tasks)
    /\ a.completed_tasks = IdsOfCalls(a, Len(a.calls))

\* C2 - Happy path: for a plan with unique ids and acyclic dependencies on
\* ids of the plan, when every executor call succeeds and no gate cancels,
\* execute_plan eventually returns True with every task id exactly once in
\* completed_tasks, in execution order; for setup, build(setup), test(build)
\* that is [setup, build, test].
HappyPath ==
    /\ (agent.pc = "idle" /\ ~agent.plan_is_none /\ WellFormed(agent.tasks))
          ~> CompletedAll(agent)
    /\ []((agent.tasks = ChainPlan /\ Halted(agent))
             => (CompletedAll(agent) /\ agent.completed_tasks = <<"setup", "build", "test">>))

\* A plan of three tasks completed in an order other than the declared one.
HappyPathWitness ==
    /\ CompletedAll(agent)
    /\ WellFormed(agent.tasks)
    /\ agent.completed_tasks = <<"build", "test", "setup">>

\* The outcomes of the executor calls of a, in call order.
ExecutorOutcomes(a) == [k \in DOMAIN a.calls |-> a.calls[k].outcome]

\* C3 - Determinism: two runs of execute_plan on the same plan whose
\* executor calls had the same outcomes have the same completed_tasks and
\* called the same tasks in the same order, each task called being the first
\* in declaration order of the tasks ready at that time.
Determinism ==
    /\ agent.tasks = twin.tasks
    /\ ExecutorOutcomes(agent) = ExecutorOutcomes(twin)
          => /\ agent.completed_tasks = twin.completed_tasks
             /\ agent.calls = twin.calls
    /\ \A a \in {agent, twin} :
          a.pc = "executing" =>
              /\ a.current_task \in Ready(a)
              /\ \A i \in Ready(a) : a.current_task <= i

\* Both runs completed the same three tasks, the first two of which were
\* ready together, while their gates and sessions differed.
DeterminismWitness ==
    /\ CompletedAll(agent)
    /\ CompletedAll(twin)
    /\ Len(agent.tasks) = 3
    /\ agent.tasks[1].dependencies = <<>>
    /\ agent.tasks[2].dependencies = <<>>
    /\ agent.user_input # twin.user_input
    /\ Started(agent)
    /\ ~Started(twin)

\* C11 - Idempotent readiness: the round that follows a gate calls
\* find_executable_tasks with the task list and completed_tasks that the
\* preview before the gate called it with, and gets the same list; neither
\* call changes the task list, completed_tasks (beyond the append made
\* before the preview) or the session state (beyond the updates the loop
\* itself makes).
IdempotentReadiness ==
    /\ [][(agent.execution_round >= 1 /\ agent'.execution_round = agent.execution_round + 1)
            => /\ agent'.executable_tasks = agent.next_executable
               /\ agent'.tasks = agent.tasks
               /\ agent'.completed_tasks = agent.completed_tasks
               /\ agent'.session_state.completed_tasks = agent.session_state.completed_tasks
               /\ agent'.service_state.completed_tasks = agent.service_state.completed_tasks]_vars
    /\ [][(agent.pc = "executing" /\ agent'.pc = "gate")
            => LET id == TaskIdOf(agent.tasks[agent.current_task])
               IN /\ agent'.tasks = agent.tasks
                  /\ agent'.completed_tasks = Append(agent.completed_tasks, id)
                  /\ agent'.session_state.status = agent.session_state.status
                  /\ Started(agent) =>
                        /\ agent'.session_state.completed_tasks = agent'.completed_tasks
                        /\ agent'.session_state.current_task = NoTask]_vars

\* The second round of a run with a session finds the two tasks that the
\* preview listed after the first task.
IdempotentReadinessWitness ==
    /\ agent.pc = "executing"
    /\ agent.execution_round = 2
    /\ Len(agent.executable_tasks) = 2
    /\ agent.next_executable = agent.executable_tasks
    /\ Started(agent)

\* C12 - Selection policy: every round that hands a task to the executor
\* hands it the first task, in declaration order, among the tasks whose id
\* is not in completed_tasks and whose dependencies are all in
\* completed_tasks.
SelectionPolicy ==
    /\ [][Len(agent'.calls) # Len(agent.calls)
            => LET t == agent'.calls[Len(agent'.calls)].task
               IN /\ Len(agent'.calls) = Len(agent.calls) + 1
                  /\ agent'.execution_round = agent.execution_round + 1
                  /\ t \in Ready(agent)
                  /\ \A i \in Ready(agent) : t <= i
                  /\ agent'.current_task = t
                  /\ agent'.pc = "executing"]_vars
    /\ [](agent.pc = "executing"
            => /\ agent.current_task = agent.calls[Len(agent.calls)].task
               /\ agent.current_task \in Ready(agent)
               /\ \A i \in 1..(agent.current_task - 1) : i \notin Ready(agent))

\* The first round passes over the first declared task, whose dependency
\* is not completed, and picks the second task while the third is ready
\* too.
SelectionPolicyWitness ==
    /\ agent.pc = "executing"
    /\ agent.execution_round = 1
    /\ agent.current_task = 2
    /\ Ready(agent) = {2, 3}
    /\ 1 \in Uncompleted(agent)

\* The task dicts of tasks without their descriptive keys.
Scheduled(tasks) ==
    [i \in DOMAIN tasks |->
        [task_id |-> tasks[i].task_id, dependencies |-> tasks[i].dependencies]]

\* C13 - Priority is never consulted: two runs on plans that differ only in
\* the priority, category and estimated_hours of their tasks, with the same
\* executor and gate outcomes, call the same tasks in the same order, have
\* the same completed_tasks and end the same way with the same result.
PriorityNeverConsulted ==
    (Scheduled(twin.tasks) = Scheduled(agent.tasks))
        => /\ twin.calls = agent.calls
           /\ twin.completed_tasks = agent.completed_tasks
           /\ twin.pc = agent.pc
           /\ twin.result = agent.result
           /\ twin.exit = agent.exit
           /\ twin.report = agent.report

\* Both runs returned True although the twin's only task of high priority
\* is the last declared one and was ready from the start.
PriorityNeverConsultedWitness ==
    /\ CompletedAll(agent)
    /\ CompletedAll(twin)
    /\ Len(twin.tasks) = 3
    /\ twin.tasks[3].priority = "high"
    /\ twin.tasks[1].priority = "low"
    /\ twin.tasks[3].dependencies = <<>>
    /\ twin.tasks # agent.tasks
    /\ twin.completed_tasks = <<"setup", "build", "test">>

\* The agent has no plan or a plan without tasks.
EmptyPlan(a) == a.plan_is_none \/ a.tasks = <<>>

\* C14 - Empty plan: without a plan, or with a plan whose task list is
\* empty, execute_plan returns False in its first step and changes nothing
\* else: no executor call, no gate, completed_tasks and the session state
\* (local and in the service) as they were.
EmptyPlanFails ==
    /\ [][(EmptyPlan(agent) /\ agent.pc = "idle" /\ agent'.pc # "idle")
            => agent' = [agent EXCEPT !.pc = "returned",
                                      !.result = "False",
                                      !.exit = IF agent.plan_is_none THEN "no_plan"
                                               ELSE "no_tasks"]]_vars
    /\ [](EmptyPlan(agent)
            => /\ agent.pc \in {"idle", "returned"}
               /\ agent.result # "True"
               /\ agent.calls = <<>>
               /\ agent.user_input = None
               /\ agent.completed_tasks = <<>>
               /\ agent.execution_round = 0
               /\ Started(agent) => /\ agent.session_state.status = "planning"
                                    /\ agent.service_state.status = "planning")
    /\ NothingAfterTheEnd

\* execute_plan has returned False for a plan without tasks, in a started
\* session.
EmptyPlanFailsWitness ==
    /\ agent.pc = "returned"
    /\ agent.exit = "no_tasks"
    /\ agent.result = "False"
    /\ ~agent.plan_is_none
    /\ Started(agent)

\* C15 - True only for a completed run: when execute_plan has returned True,
\* the id of every task of the plan is in completed_tasks and every
\* executor call of the run succeeded.
TrueOnlyWhenCompleted ==
    agent.result = "True"
        => /\ \A i \in DOMAIN agent.tasks : In(TaskIdOf(agent.tasks[i]), agent.completed_tasks)
           /\ AllSucceeded(agent)

\* The frame of execute_plan in a, its user_input left out.
FrameButInput(a) ==
    [pc |-> a.pc, execution_round |-> a.execution_round,
     executable_tasks |-> a.executable_tasks, current_task |-> a.current_task,
     next_executable |-> a.next_executable, completed_tasks |-> a.completed_tasks,
     calls |-> a.calls, result |-> a.result, exit |-> a.exit, report |-> a.report]

\* C16 - Cancel is the only gate outcome that stops the loop: the step at
\* the gate returns from execute_plan exactly when the gate returned
\* cancel; on continue and on timeout it changes nothing but user_input and
\* goes to the next round, and a run whose gates returned continue or
\* timeout goes on exactly as the run whose gates all returned continue.
CancelOnlyStops ==
    /\ [][(agent.pc = "gate" /\ agent' # agent)
            => /\ agent'.user_input \in GateOutcomes
               /\ (agent'.pc = "returned") <=> (agent'.user_input = "cancel")
               /\ agent'.user_input # "cancel"
                     => agent' = [agent EXCEPT !.user_input = agent'.user_input,
                                               !.pc = "loop"]]_vars
    /\ [](agent.exit \notin {"cancelled", "error", "store_error"}
            => FrameButInput(agent) = FrameButInput(twin))

\* The agent's first gate timed out, the twin's operator pressed enter, and
\* both are executing the same second task.
CancelOnlyStopsWitness ==
    /\ agent.user_input = "timeout"
    /\ twin.user_input = "continue"
    /\ agent.pc = "executing"
    /\ twin.pc = "executing"
    /\ agent.execution_round = 2
    /\ agent.current_task = twin.current_task

\* C17 - The gate never blocks indefinitely: on a terminal, on a terminal
\* where select fails and on a stream that is not a terminal, whether the
\* operator sends a line, ends the input or does nothing, a call of
\* _wait_for_user_input_with_timeout returns, its clock never passing
\* timeout_seconds by a polling step, also while its reader thread stays
\* blocked.
GateNeverBlocks ==
    /\ (gate.pc = "called") ~> (gate.pc = "returned")
    /\ [](gate.pc # "none" => gate.elapsed <= TimeoutPolls)

\* A call on a stream that is not a terminal has returned timeout when the
\* time was up, its reader thread still blocked in input().
GateNeverBlocksWitness ==
    /\ gate.pc = "returned"
    /\ gate.stdin = "pipe"
    /\ gate.reader = "blocked"
    /\ gate.typed = NoEvent
    /\ gate.elapsed = TimeoutPolls
    /\ gate.result = "timeout"

\* The lines of Lines that are 'c' or 'cancel' once trimmed and lowered.
CancelLines ==
    {<<"c">>, <<"C">>, <<" ", "c", " ">>,
     <<"c", "a", "n", "c", "e", "l">>, <<"C", "a", "n", "c", "e", "l", " ">>}

\* C18 - Gate outcome function: a call of _wait_for_user_input_with_timeout
\* returns continue, cancel or timeout: cancel exactly for a line that is
\* 'c' or 'cancel' (trimmed, any case) sent within the window, continue
\* exactly for any other line sent within the window, timeout exactly when
\* no line was sent (a line sent in the last polling step may count either
\* way).
GateOutcomeFunction ==
    gate.pc = "returned" =>
        LET sent == gate.typed.kind = "line"
            inWindow == sent /\ gate.typed_at < TimeoutPolls
            token == gate.typed.line \in CancelLines
        IN /\ gate.result \in GateOutcomes
           /\ gate.result = "cancel" => (sent /\ token)
           /\ gate.result = "continue" => (sent /\ ~token)
           /\ gate.result = "timeout" => ~inWindow
           /\ (inWindow /\ token) => gate.result = "cancel"
           /\ (inWindow /\ ~token) => gate.result = "continue"
           /\ ~sent => gate.result = "timeout"

\* The executor calls of a that have not returned.
InFlight(a) == {k \in DOMAIN a.calls : a.calls[k].outcome = "running"}

\* C19 - Sequential execution: at most one executor call is in flight, and
\* it is the last one made; a call starts only from the head of the loop,
\* one at a time, after the previous call has returned and the gate wait
\* that followed it has ended, also when several tasks are ready.
SequentialExecution ==
    /\ [](/\ Cardinality(InFlight(agent)) <= 1
          /\ InFlight(agent) # {} <=> agent.pc = "executing"
          /\ InFlight(agent) \subseteq {Len(agent.calls)})
    /\ [][Len(agent'.calls) # Len(agent.calls)
            => /\ Len(agent'.calls) = Len(agent.calls) + 1
               /\ agent.pc = "loop"
               /\ InFlight(agent) = {}
               /\ agent.calls # <<>> => agent.user_input \in {"continue", "timeout"}]_vars
    /\ [][/\ agent.pc = "executing" => agent'.pc \in {"executing", "gate", "returned"}
          /\ agent.pc = "gate" => agent'.pc \in {"gate", "loop", "returned"}
          /\ agent'.pc = "executing" => agent.pc \in {"executing", "loop"}]_vars

\* The second call is in flight, alone, while another task is ready too.
SequentialExecutionWitness ==
    /\ agent.pc = "executing"
    /\ Len(agent.calls) = 2
    /\ InFlight(agent) = {2}
    /\ Cardinality(Ready(agent)) = 2

\* The ids of the tasks whose executor calls returned success, in the order
\* of the calls.
SucceededIds(a) ==
    LET succeeded == SelectSeq(a.calls, LAMBDA call : call.outcome = "success")
    IN [k \in DOMAIN succeeded |-> TaskIdOf(a.tasks[succeeded[k].task])]

\* C20 - Append-only completion order: a step of the run leaves
\* completed_tasks as it is or appends one id at its end, the id of the
\* task whose executor call just returned success; completed_tasks is at
\* every moment the sequence of the ids of the calls that returned success,
\* in the order of the calls.
AppendOnlyCompletion ==
    /\ [][\/ agent'.completed_tasks = agent.completed_tasks
          \/ /\ agent.pc = "executing"
             /\ agent'.calls[Len(agent.calls)].outcome = "success"
             /\ agent'.completed_tasks =
                    Append(agent.completed_tasks, TaskIdOf(agent.tasks[agent.current_task]))]_vars
    /\ [](agent.completed_tasks = SucceededIds(agent))

\* Two tasks were completed, the second declared one first, and the call
\* for a third task failed.
AppendOnlyCompletionWitness ==
    /\ agent.exit = "task_failed"
    /\ Len(agent.calls) = 3
    /\ agent.completed_tasks = <<"build", "setup">>

\* The operator has entered a cancel token that no gate has answered yet.
CancelEntered ==
    /\ gate.typed.kind = "line"
    /\ lower(strip(gate.typed.line)) \in CancelTokens

\* C21 - Cooperative cancellation: a cancel token entered while an executor
\* call is in flight does not interrupt the call (the call ends with its own
\* outcome, and on success its task is appended to completed_tasks and the
\* run goes on to the gate); the cancel takes effect at the following gate,
\* which ends the run with False before another round starts.
CooperativeCancellation ==
    /\ [](agent.pc = "executing" /\ CancelEntered
            => agent.calls[Len(agent.calls)].outcome = "running")
    /\ [][agent.pc = "executing" /\ CancelEntered /\ agent'.pc # "executing"
            => /\ agent'.calls[Len(agent.calls)].outcome \in ExecOutcomes
               /\ agent'.exit # "cancelled"
               /\ agent'.calls[Len(agent.calls)].outcome = "success"
                     => /\ agent'.pc = "gate"
                        /\ agent'.completed_tasks =
                              Append(agent.completed_tasks,
                                     TaskIdOf(agent.tasks[agent.current_task]))]_vars
    /\ [][agent.pc = "gate" /\ CancelEntered /\ agent'.pc # "gate"
            => /\ agent'.pc = "returned"
               /\ agent'.result = "False"
               /\ agent'.exit = "cancelled"
               /\ agent'.calls = agent.calls]_vars

\* C22 - Unknown dependency ids: when some task of the plan depends on an id
\* that no task of the plan carries, execute_plan fails in its first round
\* at the latest: no second round starts, no executor call is repeated, and
\* the result is never True.
UnknownDependencyFailsAtOnce ==
    MissingDependencies(agent.tasks) # {} =>
        /\ agent.execution_round <= 1
        /\ agent.result # "True"
        /\ \A j \in DOMAIN agent.calls : \A k \in DOMAIN agent.calls :
              j # k => agent.calls[j].task # agent.calls[k].task

\* new is old with every key of delta set to delta's value, the other keys
\* as they were.
Merged(old, new, delta) ==
    /\ DOMAIN new = DOMAIN old \cup DOMAIN delta
    /\ \A k \in DOMAIN delta : new[k] = delta[k]
    /\ \A k \in DOMAIN old \ DOMAIN delta : new[k] = old[k]

\* C23 - Session store merge: a call of update_session_state(delta) with a
\* started session sets every key of delta to delta's value and leaves the
\* other keys as they were, in the local session_state and, when the service
\* answers with the session, in the state of that session; it changes
\* nothing else, and nothing at all when no session has been started.
SessionStoreMerge ==
    [][probe'.n = probe.n + 1
        => IF agent.session_id = None
           THEN agent' = agent
           ELSE /\ Merged(agent.session_state, agent'.session_state, probe'.delta)
                /\ probe'.svc = "ok"
                      => Merged(agent.service_state, agent'.service_state, probe'.delta)
                /\ agent' = [agent EXCEPT !.session_state = agent'.session_state,
                                          !.service_state = agent'.service_state]]_vars

\* After three calls on a started session the state holds the last value
\* written to each key: status of the third call, completed_tasks of the
\* second, project_plan of the first, in the local state and in the service.
SessionStoreMergeWitness ==
    /\ probe.n = 3
    /\ probe.delta = [status |-> "completed"]
    /\ agent.session_id # None
    /\ agent.session_state = agent.service_state
    /\ agent.session_state = [status |-> "completed", current_task |-> NoTask,
                              completed_tasks |-> <<"setup">>, project_plan |-> "plan"]

\* What execute_plan works with and returns: everything but the session
\* state.
Control(a) == [a EXCEPT !.session_state = NoSessionState, !.service_state = NoSessionState]

\* C24 - The scheduler never reads the store for control: whatever an
\* external party writes into the session state of the agent during the
\* run, the agent and the twin, which run on the same plan with the same
\* executor and gate outcomes, are at the same point of the loop, have made
\* the same executor calls with the same completed_tasks, and return the
\* same result.
ControlIgnoresStore == Control(agent) = Control(twin)

\* The agent is executing its second task while its session state, written
\* from outside, says that every task is completed and the run is over.
ControlIgnoresStoreWitness ==
    /\ agent.pc = "executing"
    /\ Len(agent.calls) = 2
    /\ Len(agent.tasks) = 3
    /\ Len(agent.session_state.completed_tasks) = 3
    /\ agent.session_state.status = "completed"
    /\ twin.session_state.completed_tasks = twin.completed_tasks

\* C25 - current_task is None when idle: with a started session, the
\* session's current_task names the selected task, with status 'executing',
\* while the executor call is in flight, and is None at every other moment:
\* before the first round, at every gate and after execute_plan has
\* returned, for whatever reason.
CurrentTaskNoneWhenIdle ==
    Started(agent) =>
        IF agent.pc = "executing"
        THEN /\ agent.session_state.current_task = agent.calls[Len(agent.calls)].task
             /\ agent.session_state.status = "executing"
        ELSE agent.session_state.current_task = NoTask

\* C26 - Unexpected error in a round: when an update of the session state,
\* the executor call or the gate wait raises during a round, execute_plan
\* does not raise: that step makes it return False, with no executor call
\* added, and nothing happens afterwards (no further task is attempted).
ErrorInRoundReturnsFalse ==
    /\ [](probe.fault # "none"
            => /\ agent.pc = "returned"
               /\ agent.result = "False"
               /\ InFlight(agent) = {})
    /\ [][probe.fault # "none" => agent' = agent]_vars
    /\ [][(probe.fault = "none" /\ probe'.fault # "none")
            => Len(agent'.calls) = Len(agent.calls)]_vars

\* The gate wait after the second task raised, and execute_plan returned
\* False with the two tasks completed and the third never attempted.
ErrorInRoundReturnsFalseWitness ==
    /\ probe.fault = "gate"
    /\ agent.pc = "returned"
    /\ agent.result = "False"
    /\ Len(agent.tasks) = 3
    /\ Len(agent.calls) = 2
    /\ Len(agent.completed_tasks) = 2

\* The positions of the tasks that can be reached from the tasks of done
\* in one more round: every dependency id is carried by a task of done.
Reachable(tasks, done) ==
    done \cup {i \in DOMAIN tasks :
                  \A d \in Range(tasks[i].dependencies) :
                      \E j \in done : tasks[j].task_id = d}

RECURSIVE ReachableIn(_, _, _)
ReachableIn(tasks, done, rounds) ==
    IF rounds = 0 THEN done ELSE ReachableIn(tasks, Reachable(tasks, done), rounds - 1)

\* The positions of the tasks that lie on a dependency cycle, depend on an
\* id that no task carries, or depend, directly or not, on such a task.
Doomed(tasks) == DOMAIN tasks \ ReachableIn(tasks, {}, Len(tasks))

\* C27 - A task that lies on a dependency cycle, depends on an id absent
\* from the plan or transitively depends on such a task is never handed to
\* the executor, and execute_plan never returns True for a plan with such a
\* task.
DoomedTaskNeverRuns ==
    /\ \A k \in DOMAIN agent.calls : agent.calls[k].task \notin Doomed(agent.tasks)
    /\ Doomed(agent.tasks) # {} => agent.result # "True"

\* C28 - Order of steps in a successful round: the session update that sets
\* current_task and status 'executing' has happened when the executor call
\* starts; after success the id is appended to completed_tasks, then the
\* session update records completed_tasks (with that id) and current_task
\* None, and only then comes the gate wait.  An executor call starts only
\* from the head of the loop, which after the first round is reached only
\* from a gate wait, and a gate wait starts only after a successful call:
\* so exactly one gate wait lies between two consecutive calls, and one
\* follows the last task too.
OrderOfSteps ==
    /\ []((Started(agent) /\ agent.pc = "executing")
            => /\ agent.session_state.current_task = agent.calls[Len(agent.calls)].task
               /\ agent.session_state.status = "executing"
               /\ agent.service_state = agent.session_state)
    /\ []((Started(agent) /\ agent.pc = "gate")
            => /\ agent.session_state.completed_tasks = agent.completed_tasks
               /\ agent.session_state.current_task = NoTask
               /\ agent.service_state = agent.session_state)
    /\ [](agent.pc = "gate"
            => /\ agent.calls[Len(agent.calls)].outcome = "success"
               /\ agent.completed_tasks # <<>>
               /\ agent.completed_tasks[Len(agent.completed_tasks)] =
                     TaskIdOf(agent.tasks[agent.calls[Len(agent.calls)].task]))
    /\ [][(agent.pc = "executing" /\ agent' # agent
             /\ agent'.calls[Len(agent.calls)].outcome = "success" /\ agent'.exit # "error")
            => agent'.pc = "gate"]_vars
    /\ [][agent'.calls # agent.calls /\ agent.pc # "executing"
            => /\ agent.pc = "loop"
               /\ agent'.pc = "executing"
               /\ Len(agent'.calls) = Len(agent.calls) + 1]_vars
    /\ [][(agent.pc # "loop" /\ agent'.pc = "loop") => agent.pc \in {"idle", "gate"}]_vars
    /\ [][(agent.pc = "gate" /\ agent' # agent)
            => /\ agent'.pc \in {"loop", "returned"}
               /\ agent'.calls = agent.calls]_vars
    /\ [][(agent.pc # "gate" /\ agent'.pc = "gate") => agent.pc = "executing"]_vars

\* The gate wait after the last task of a plan of three: the session state
\* holds the three ids and no current task.
OrderOfStepsWitness ==
    /\ Started(agent)
    /\ agent.pc = "gate"
    /\ Len(agent.tasks) = 3
    /\ Len(agent.calls) = 3
    /\ Len(agent.session_state.completed_tasks) = 3
    /\ agent.session_state.current_task = NoTask

\* C29 - Bounded rounds: a round either ends the run or attempts exactly
\* one task; a call that returns success makes completed_tasks longer by
\* exactly one, a call that fails ends the run; so at every moment there
\* have been at most len(tasks) rounds and at most len(tasks) executor
\* calls, whatever the executor and the gate return.
BoundedRounds ==
    /\ [](/\ Len(agent.calls) <= Len(agent.tasks)
          /\ agent.execution_round <= Len(agent.tasks)
          /\ Len(agent.calls) <= agent.execution_round
          /\ Len(agent.completed_tasks) <= Len(agent.calls))
    /\ [][agent'.execution_round # agent.execution_round
            => /\ agent.pc = "loop"
               /\ agent'.execution_round = agent.execution_round + 1
               /\ \/ Halted(agent') /\ agent'.calls = agent.calls
                  \/ /\ agent'.pc = "executing"
                     /\ Len(agent'.calls) = Len(agent.calls) + 1
                     /\ agent'.completed_tasks = agent.completed_tasks]_vars
    /\ [][(agent.pc = "executing" /\ agent' # agent)
            => /\ Len(agent'.calls) = Len(agent.calls)
               /\ IF agent'.calls[Len(agent.calls)].outcome = "success"
                  THEN Len(agent'.completed_tasks) = Len(agent.completed_tasks) + 1
                  ELSE /\ Halted(agent')
                       /\ agent'.completed_tasks = agent.completed_tasks]_vars
    /\ [][agent.pc \notin {"loop", "executing"}
            => /\ agent'.calls = agent.calls
               /\ agent'.execution_round = agent.execution_round
               /\ agent.pc # "idle" => agent'.completed_tasks = agent.completed_tasks]_vars

\* A run on a plan of three tasks has ended in its third round with three
\* executor calls made, the last of which failed.
BoundedRoundsWitness ==
    /\ Halted(agent)
    /\ Len(agent.tasks) = 3
    /\ Len(agent.calls) = 3
    /\ agent.execution_round = 3
    /\ agent.exit = "task_failed"

\* The positions of the tasks that list their own id among their
\* dependencies.
SelfDependent(tasks) == {i \in DOMAIN tasks : In(tasks[i].task_id, tasks[i].dependencies)}

\* C30 - Self-dependency is a trivial cycle: a task that lists its own id
\* among its dependencies is never executed, and the run, unless an executor
\* failure, a cancel or a store error ends it earlier, ends in the deadlock
\* report: execute_plan returns False, the report lists that task as missing
\* its own id, and every task that does not depend on a task that can never
\* run has been executed by then.
SelfDependencyDeadlocks ==
    \A i \in SelfDependent(agent.tasks) :
        /\ \A k \in DOMAIN agent.calls : agent.calls[k].task # i
        /\ (Halted(agent) /\ agent.exit \notin {"task_failed", "cancelled", "error"})
              => /\ agent.exit = "deadlock"
                 /\ agent.result = "False"
                 /\ \E k \in DOMAIN agent.report :
                       /\ agent.report[k].task = i
                       /\ In(agent.tasks[i].task_id, agent.report[k].missing)
                 /\ \A j \in DOMAIN agent.tasks \ Doomed(agent.tasks) :
                       \E k \in DOMAIN agent.calls :
                           agent.calls[k].task = j /\ agent.calls[k].outcome = "success"

\* What a run of execute_plan does and returns, the plan and the wording of
\* the deadlock report left aside.
Course(a) == [a EXCEPT !.tasks = <<>>, !.report = <<>>]

\* C31 - Dependencies are treated as a set: two plans that differ only in
\* the order of the ids of the dependency lists, or in ids written more
\* than once, get the same result from find_executable_tasks for every
\* completed list, and execute_plan hands the same tasks to the executor in
\* the same order and returns the same result for both.
DependenciesAsSet ==
    /\ Course(agent) = Course(twin)
    /\ Len(agent.report) = Len(twin.report)
    /\ agent.pc = "idle" =>
          \A c \in CompletedLists : \A how \in Rewritings :
              find_executable_tasks(WithDependencies(agent.tasks, how), c) =
                  find_executable_tasks(agent.tasks, c)

\* Both runs have returned True after three calls, the third for a task
\* whose two dependencies are written in the other order, and twice, in the
\* twin's plan.
DependenciesAsSetWitness ==
    /\ agent.pc = "returned"
    /\ agent.result = "True"
    /\ Len(agent.calls) = 3
    /\ Len(agent.tasks[agent.calls[3].task].dependencies) = 2
    /\ Len(twin.tasks[agent.calls[3].task].dependencies) = 4
    /\ twin.tasks[agent.calls[3].task].dependencies[1] =
          agent.tasks[agent.calls[3].task].dependencies[2]

\* C32 - execute_plan always ends by returning a boolean: for every plan,
\* the plans in which two tasks share an id included, no exception leaves
\* execute_plan; in particular no round takes the first element of an empty
\* list of executable tasks.
AlwaysReturnsBoolean ==
    /\ agent.pc # "raised"
    /\ agent.exit # "IndexError"
    /\ agent.pc = "returned" => agent.result \in {"True", "False"}

\* C33 - No task runs twice (plans whose tasks all carry a task_id): no id
\* occurs more than once in completed_tasks, and a task for which a call has
\* succeeded, or any task with the same id, is never handed to the executor
\* again.
NoTaskRunsTwice ==
    /\ \A j \in DOMAIN agent.completed_tasks : \A k \in DOMAIN agent.completed_tasks :
          j # k => agent.completed_tasks[j] # agent.completed_tasks[k]
    /\ \A j \in DOMAIN agent.calls : \A k \in DOMAIN agent.calls :
          (j < k /\ agent.calls[j].outcome = "success")
              => /\ agent.calls[k].task # agent.calls[j].task
                 /\ agent.tasks[agent.calls[k].task].task_id #
                       agent.tasks[agent.calls[j].task].task_id

\* The third call of a run is in flight while the two tasks already
\* completed, which have no dependencies, still have all their dependencies
\* met.
NoTaskRunsTwiceWitness ==
    /\ agent.pc = "executing"
    /\ Len(agent.calls) = 3
    /\ Len(agent.completed_tasks) = 2
    /\ agent.tasks[agent.calls[1].task].dependencies = <<>>
    /\ agent.tasks[agent.calls[2].task].dependencies = <<>>

\* C34 - Mirror consistency: with a started session, at every gate wait and
\* when execute_plan has returned, the completed_tasks of the session state
\* is the scheduler's completed_tasks as a sequence (in the service's
\* session too, unless the service raised in that update); the stored list
\* is a snapshot: after the scheduler has appended an id and before the
\* next update, it still is the list without that id.
MirrorConsistency ==
    Started(agent) =>
        /\ agent.pc \in {"gate", "returned"}
              => /\ Items(agent.session_state.completed_tasks, agent) = agent.completed_tasks
                 /\ agent.exit # "error"
                       => Items(agent.service_state.completed_tasks, agent) =
                              agent.completed_tasks
        /\ agent.pc = "appended"
              => /\ Items(agent.session_state.completed_tasks, agent) =
                       SubSeq(agent.completed_tasks, 1, Len(agent.completed_tasks) - 1)
                 /\ Items(agent.service_state.completed_tasks, agent) =
                       SubSeq(agent.completed_tasks, 1, Len(agent.completed_tasks) - 1)

\* The scheduler has appended the id of its second task, and the session
\* state still holds the list with the first id alone.
MirrorConsistencyWitness ==
    /\ Started(agent)
    /\ agent.pc = "appended"
    /\ Len(agent.completed_tasks) = 2
    /\ agent.session_state.completed_tasks.items = <<agent.completed_tasks[1]>>

\* The steps that the status of a run may take.
StatusMoves ==
    {<<"planning", "executing">>, <<"executing", "completed">>}

\* C35 - Status 'completed' matches success: with a started session, the
\* status is 'completed' only when every task of the plan has been executed
\* with success and its id is in completed_tasks; it is 'completed', in the
\* local state and in the service, whenever execute_plan has returned True;
\* and it only moves forward, from planning to executing to completed.
StatusCompletedMatchesSuccess ==
    /\ []((Started(agent) /\ agent.session_state.status = "completed")
            => \A i \in DOMAIN agent.tasks :
                  /\ In(TaskIdOf(agent.tasks[i]), agent.completed_tasks)
                  /\ \E k \in DOMAIN agent.calls :
                        agent.calls[k].task = i /\ agent.calls[k].outcome = "success")
    /\ []((Started(agent) /\ agent.result = "True")
            => /\ agent.session_state.status = "completed"
               /\ agent.service_state.status = "completed")
    /\ [][(Started(agent) /\ agent'.session_state.status # agent.session_state.status)
            => <<agent.session_state.status, agent'.session_state.status>> \in StatusMoves]_vars

\* Every task of the plan of a has had an executor call that succeeded.
EveryTaskSucceeded(a) ==
    \A i \in DOMAIN a.tasks :
        \E k \in DOMAIN a.calls : a.calls[k].task = i /\ a.calls[k].outcome = "success"

\* C36 - A fully completed run is a success: when execute_plan has returned
\* False for a plan with tasks, the id of at least one task is not in
\* completed_tasks; and a run in which every task had a successful executor
\* call does not return False, whatever the gate after the last task
\* returns.
FullyCompletedRunSucceeds ==
    /\ (~EmptyPlan(agent) /\ agent.result = "False") => Uncompleted(agent) # {}
    /\ (~EmptyPlan(agent) /\ EveryTaskSucceeded(agent)) => agent.result # "False"

\* The operator has sent a line within the window of the gate that waits or
\* has just returned.
LineInWindow == gate.typed.kind = "line" /\ gate.typed_at < TimeoutPolls

\* C37 - Input reaches its own gate: a reader thread left behind by an
\* earlier gate never consumes the line sent in the window of the gate that
\* waits; a gate in whose window a line was sent does not return 'timeout',
\* and it returns 'cancel' when the line is a cancel token.
InputReachesItsOwnGate ==
    /\ [][(gate'.stale < gate.stale /\ LineInWindow) => gate.pending # gate.typed]_vars
    /\ []((gate.pc = "returned" /\ LineInWindow)
            => /\ gate.result # "timeout"
               /\ CancelEntered => gate.result = "cancel")

\* C38 - The two gate implementations agree for the scheduler: when the
\* gate returns to execute_plan, the decision depends on the event in the
\* window alone, whichever path the gate took: the run stops (returns False,
\* cancelled) exactly when a cancel token was entered in the window, and
\* goes back to the head of the loop for any other line, for the end of
\* input and for no input.
GatePathsAgree ==
    [][(agent.pc = "gate" /\ agent'.pc # "gate")
         => IF CancelEntered
            THEN agent'.pc = "returned" /\ agent'.result = "False" /\ agent'.exit = "cancelled"
            ELSE agent'.pc = "loop"]_vars

\* The tasks handed to the executor, in order.
Handed(calls) == [k \in DOMAIN calls |-> calls[k].task]

====
